---- MODULE Spec2Model ----
(***************************************************************************)
(* A model of the befunge-exec interpreter core: the execution Space       *)
(* (src/src/space.rs), the in-memory IO (src/src/io.rs, VecIO), the        *)
(* Timeline recorder (src/src/record.rs), Interpreter::step                *)
(* (src/src/interpreter.rs), the path analysis (src/src/analyze.rs) and    *)
(* the debugger (src/src/debugger.rs).                                     *)
(***************************************************************************)
EXTENDS Integers, Sequences, FiniteSets, TLC

VARIABLES
    space,      \* Interpreter.space : Space<GridCell>
    cursor,     \* Interpreter.cursor : Cursor {pos, dir, mode}
    stack,      \* Interpreter.stack : Vec<StackCell>
    io,         \* Interpreter.io : VecIO {input_buffer, output_buffer}
    recorder,   \* Interpreter.recorder : Timeline {steps, events, pending_events}
    status,     \* what the last call of step() did (its Status, or how it failed to return)
    analysis,   \* PathAnalysisState {space, states, queue}; Debugger.analysis once its queue is empty
    debugger,   \* Debugger {state, ticks_per_step, ticks_since_step, breakpoints}
    commands,   \* CommandsView {output, input_contents, input_cursor}
    terminal,   \* VirtualTerminal {display, newline_indices, available_input, uncommitted, cursor, dirty}
    pre,        \* history: the last operation and what the properties need of the past
    nsteps      \* history: the number of step() calls made

vars == <<space, cursor, stack, io, recorder, status, analysis, debugger, commands, terminal, pre, nsteps>>

(***************************************************************************)
(* Bounds of the model.                                                    *)
(***************************************************************************)
\* the number of step() calls explored
MaxSteps == 10
\* the number of input bytes that may be buffered and unread
MaxInput == 2
\* the number of set_cell calls made on a Space explored on its own
MaxSets == 3
\* the number of interpreter steps a debugger is followed for
MaxDebugSteps == 4
\* the number of commands (add_steps, start_running, pause,
\* toggle_breakpoint) given to a debugger
MaxCommands == 3
\* the length of the inputs that read_number is applied to
MaxReadLen == 4
\* the number of read_number calls made on one input
MaxReads == 2
\* the number of key events, writes and reads a terminal is followed for
MaxTerminalOps == 5
\* the length of the command lines typed
MaxCommandLen == 5
\* the length of the prompts edited in the command prompt and the terminal
MaxPromptLen == 3

(***************************************************************************)
(* Bytes.                                                                  *)
(***************************************************************************)
\* the byte value of the characters that programs and inputs are written in
\* ("bt" names the backtick)
Ord ==
    (" " :> 32) @@ ("!" :> 33) @@ ("\"" :> 34) @@ ("#" :> 35) @@ ("$" :> 36) @@
    ("%" :> 37) @@ ("&" :> 38) @@ ("*" :> 42) @@ ("+" :> 43) @@ ("," :> 44) @@
    ("-" :> 45) @@ ("." :> 46) @@ ("/" :> 47) @@ ("0" :> 48) @@ ("1" :> 49) @@
    ("2" :> 50) @@ ("3" :> 51) @@ ("4" :> 52) @@ ("5" :> 53) @@ ("6" :> 54) @@
    ("7" :> 55) @@ ("8" :> 56) @@ ("9" :> 57) @@ (":" :> 58) @@ ("<" :> 60) @@
    (">" :> 62) @@ ("?" :> 63) @@ ("@" :> 64) @@ ("H" :> 72) @@ ("\\" :> 92) @@
    ("^" :> 94) @@ ("_" :> 95) @@ ("bt" :> 96) @@ ("a" :> 97) @@ ("g" :> 103) @@
    ("i" :> 105) @@ ("p" :> 112) @@ ("v" :> 118) @@ ("x" :> 120) @@ ("|" :> 124) @@
    ("~" :> 126) @@ ("\n" :> 10) @@ ("b" :> 98) @@ ("c" :> 99) @@ ("e" :> 101) @@
    ("h" :> 104) @@ ("l" :> 108) @@ ("o" :> 111) @@ ("r" :> 114) @@ ("y" :> 121) @@
    ("z" :> 122)

\* a text, given as a sequence of one-character strings, as bytes
Bytes(text) == [i \in 1..Len(text) |-> Ord[text[i]]]

\* Option::None where the code returns an Option<u8> or an Option<&Cell>
\* (the values are bytes, 0..255)
None == 0 - 1

IsDigit(byte) == byte >= 48 /\ byte <= 57

\* value as u8: the low byte of a two's-complement integer
AsU8(value) == value % 256

(***************************************************************************)
(* std::num::Wrapping<i32>: StackCell holds an i32                         *)
(* (interpreter.rs:321, StackCell(input_number as i32)).  The values are *)
(* handled as two 16-bit limbs so that no intermediate result leaves the   *)
(* 32-bit range.                                                           *)
(***************************************************************************)
MinI32 == -2147483647 - 1
MaxI32 == 2147483647 + 0

Lo16(a) == a % 65536
Hi16(a) == (a \div 65536) % 65536

FromLimbs(hi, lo) ==
    IF hi >= 32768 THEN (hi - 65536) * 65536 + lo ELSE hi * 65536 + lo

\* the 32-bit product of two 16-bit limbs, as limbs
Mul16(x, y) ==
    LET p0 == (x % 256) * y
        p1 == (x \div 256) * y
        s  == p0 + (p1 % 256) * 256
    IN  [hi |-> (s \div 65536) + (p1 \div 256), lo |-> s % 65536]

wrapping_add(a, b) ==
    LET lo == Lo16(a) + Lo16(b)
        hi == Hi16(a) + Hi16(b) + (lo \div 65536)
    IN  FromLimbs(hi % 65536, lo % 65536)

wrapping_sub(a, b) ==
    LET lo == Lo16(a) - Lo16(b)
        hi == Hi16(a) - Hi16(b) + (lo \div 65536)
    IN  FromLimbs(hi % 65536, lo % 65536)

\* the product kept to its low byte, as u8 arithmetic would
wrapping_mul_u8(a, b) == ((a % 256) * (b % 256)) % 256

wrapping_mul(a, b) ==
    LET ll == Mul16(Lo16(a), Lo16(b))
        lh == Mul16(Lo16(a), Hi16(b))
        hl == Mul16(Hi16(a), Lo16(b))
    IN  FromLimbs((ll.hi + lh.lo + hl.lo) % 65536, ll.lo)

\* a / b rounded toward zero, for b > 0
TruncDivPos(a, b) ==
    LET q == a \div b
    IN  IF a < 0 /\ a % b # 0 THEN q + 1 ELSE q

\* the remainder of a / b with the sign of a, for b > 0
TruncRemPos(a, b) ==
    LET m == a % b
    IN  IF a < 0 /\ m # 0 THEN m - b ELSE m

\* i32::wrapping_div, for b # 0 (MIN / -1 wraps to MIN)
wrapping_div(a, b) ==
    IF b > 0 THEN TruncDivPos(a, b)
    ELSE IF b = MinI32 THEN (IF a = MinI32 THEN 1 ELSE 0)
    ELSE wrapping_sub(0, TruncDivPos(a, 0 - b))

\* i32::wrapping_rem, for b # 0
wrapping_rem(a, b) ==
    IF b > 0 THEN TruncRemPos(a, b)
    ELSE IF b = MinI32 THEN (IF a = MinI32 THEN 0 ELSE a)
    ELSE TruncRemPos(a, 0 - b)

(***************************************************************************)
(* core: Position, Direction, Mode, Cursor, the cells.                     *)
(***************************************************************************)
Directions == {"Up", "Down", "Left", "Right"}
Modes == {"Quote", "Normal"}

Position(x, y) == [x |-> x, y |-> y]
ORIGIN == Position(0, 0)

\* Cursor::default(): the cursor Interpreter::new starts from
CursorDefault == [pos |-> ORIGIN, dir |-> "Right", mode |-> "Normal"]

\* GridCell::default(): a space
GridCellDefault == Ord[" "]

\* From<GridCell> for StackCell
GridToStack(cell) == cell

\* From<StackCell> for GridCell
StackToGrid(value) == AsU8(value)

(***************************************************************************)
(* Space (space.rs): a dense grid of the program's size, a sparse map for  *)
(* the cells written outside it, and the extent rows x cols.               *)
(***************************************************************************)
Max(a, b) == IF a >= b THEN a ELSE b

\* grid::Grid::new(rows, cols): a grid with no row or no column is empty
GridNew(rows, cols) ==
    IF rows = 0 \/ cols = 0 THEN [rows |-> 0, cols |-> 0] ELSE [rows |-> rows, cols |-> cols]

\* the first loop of Space::new: the extent of the program text
\* (i is the 0-based index of the byte looked at)
RECURSIVE ScanDims(_, _, _, _, _)
ScanDims(program, i, cols, rows, last_line) ==
    IF i = Len(program)
    THEN IF last_line # Len(program)
         THEN [cols |-> Max(Len(program) - last_line, cols), rows |-> rows + 1]
         ELSE [cols |-> cols, rows |-> rows]
    ELSE IF program[i + 1] = Ord["\n"]
         THEN ScanDims(program, i + 1, Max(i - last_line, cols), rows + 1, i + 1)
         ELSE ScanDims(program, i + 1, cols, rows, last_line)

\* the second loop of Space::new: the row and the start of the line of byte i (0-based)
RowOf(program, i) == Cardinality({j \in 1..i : program[j] = Ord["\n"]})
LineStart(program, i) ==
    LET nl == {j \in 1..i : program[j] = Ord["\n"]}
    IN  IF nl = {} THEN 0 ELSE CHOOSE j \in nl : \A k \in nl : k <= j

\* Space::new(program)
SpaceNew(program) ==
    LET dims == ScanDims(program, 0, 0, 0, 0)
        g    == GridNew(dims.rows, dims.cols)
        at(x, y) == {i \in 0..(Len(program) - 1) :
                        /\ program[i + 1] # Ord["\n"]
                        /\ RowOf(program, i) = y
                        /\ i - LineStart(program, i) = x}
    IN  [grid |-> [rows  |-> g.rows,
                   cols  |-> g.cols,
                   cells |-> [p \in {Position(x, y) : x \in 0..(g.cols - 1), y \in 0..(g.rows - 1)} |->
                                IF at(p.x, p.y) = {} THEN GridCellDefault
                                ELSE program[(CHOOSE i \in at(p.x, p.y) : TRUE) + 1]]],
         map  |-> [p \in {} |-> GridCellDefault],
         rows |-> dims.rows,
         cols |-> dims.cols]

\* Space::lookup_cell: the dense grid inside its bounds, the sparse map outside;
\* None for a cell the map does not hold
lookup_cell(sp, pos) ==
    IF pos.x >= sp.grid.cols \/ pos.y >= sp.grid.rows
    THEN IF pos \in DOMAIN sp.map THEN sp.map[pos] ELSE None
    ELSE sp.grid.cells[pos]

\* Space::get_cell: lookup_cell(pos).copied().unwrap_or_default()
get_cell(sp, pos) ==
    IF lookup_cell(sp, pos) = None THEN GridCellDefault ELSE lookup_cell(sp, pos)

\* set_cell with a sparse map that keeps the last cell written only
set_cell_single_entry(sp, pos, cell) ==
    LET stored ==
            IF pos.x >= sp.grid.cols \/ pos.y >= sp.grid.rows
            THEN [sp EXCEPT !.map = [p \in {pos} |-> cell]]
            ELSE [sp EXCEPT !.grid.cells[pos] = cell]
    IN  [stored EXCEPT !.cols = Max(sp.cols, pos.x + 1),
                       !.rows = Max(sp.rows, pos.y + 1)]

\* Space::set_cell
set_cell(sp, pos, cell) ==
    LET stored ==
            IF pos.x >= sp.grid.cols \/ pos.y >= sp.grid.rows
            THEN [sp EXCEPT !.map = [p \in (DOMAIN sp.map) \cup {pos} |->
                                        IF p = pos THEN cell ELSE sp.map[p]]]
            ELSE [sp EXCEPT !.grid.cells[pos] = cell]
    IN  [stored EXCEPT !.cols = Max(sp.cols, pos.x + 1),
                       !.rows = Max(sp.rows, pos.y + 1)]

\* Space::move_pos.  The extent is cast to u8 (self.cols as u8); x + 1 and
\* y + 1 are u8 additions.
move_pos(sp, pos, dir) ==
    LET cols == AsU8(sp.cols)
        rows == AsU8(sp.rows)
    IN  CASE dir = "Right" ->
                LET x == AsU8(pos.x + 1)
                IN  Position(IF x >= cols THEN 0 ELSE x, pos.y)
          [] dir = "Left" ->
                Position(IF pos.x = 0 THEN cols ELSE pos.x - 1, pos.y)
          [] dir = "Up" ->
                Position(pos.x, IF pos.y = 0 THEN rows ELSE pos.y - 1)
          [] dir = "Down" ->
                LET y == AsU8(pos.y + 1)
                IN  Position(pos.x, IF y >= rows THEN 0 ELSE y)

(***************************************************************************)
(* VecIO (io.rs): the input and output byte buffers, and the number parser.*)
(***************************************************************************)
\* VecIO::default()
VecIODefault == [input_buffer |-> <<>>, output_buffer |-> <<>>]

\* if a number is greater than SHIFT_MAX, 10 * number is greater than 255
SHIFT_MAX == 25

\* try_combine: None when old * 10 + new does not fit a byte
try_combine(old, new) ==
    IF old > SHIFT_MAX THEN None
    ELSE IF new > 255 - old * 10 THEN None
    ELSE old * 10 + new

\* base_number: the first digit of the input.  i is the number of bytes
\* already taken from the iterator.
RECURSIVE base_number(_, _, _)
base_number(bytes, i, skippable) ==
    IF i >= Len(bytes) THEN [ok |-> FALSE, skippable |-> skippable]
    ELSE IF IsDigit(bytes[i + 1])
         THEN [ok |-> TRUE, offset |-> i + 1, num |-> bytes[i + 1] - Ord["0"]]
         ELSE base_number(bytes, i + 1, i + 1)

\* the while loop of try_read_number, from byte i (0-based) on
RECURSIVE read_digits(_, _, _, _, _)
read_digits(bytes, i, offset, num, skippable) ==
    IF i >= Len(bytes) THEN [ok |-> FALSE, skippable |-> skippable]
    ELSE IF IsDigit(bytes[i + 1])
         THEN IF try_combine(num, bytes[i + 1] - Ord["0"]) # None
              THEN read_digits(bytes, i + 1, i + 1,
                               try_combine(num, bytes[i + 1] - Ord["0"]), skippable)
              ELSE [ok |-> TRUE, offset |-> offset, num |-> num]
         ELSE [ok |-> TRUE, offset |-> offset, num |-> num]

\* try_read_number, were the byte that ends the number counted as read
try_read_number_takes_terminator(bytes) ==
    LET base == base_number(bytes, 0, 0)
        r    == read_digits(bytes, base.offset, base.offset, base.num, base.offset - 1)
    IN  IF ~base.ok THEN base
        ELSE IF r.ok THEN [r EXCEPT !.offset = @ + 1] ELSE r

\* try_read_number: Ok((offset, num)) or Err(skippable)
try_read_number(bytes) ==
    LET base == base_number(bytes, 0, 0)
    IN  IF ~base.ok THEN base
        ELSE read_digits(bytes, base.offset, base.offset, base.num, base.offset - 1)

\* VecIO::read_byte: [io, value], value None on an empty buffer
read_byte(v) ==
    IF Len(v.input_buffer) = 0 THEN [io |-> v, value |-> None]
    ELSE [io |-> [v EXCEPT !.input_buffer = Tail(@)], value |-> Head(v.input_buffer)]

\* VecIO::read_number: [io, value]; nothing is consumed when no number is read
read_number(v) ==
    LET r == try_read_number(v.input_buffer)
    IN  IF ~r.ok THEN [io |-> v, value |-> None]
        ELSE [io |-> [v EXCEPT !.input_buffer =
                                   SubSeq(@, r.offset + 1, Len(@))],
              value |-> r.num]

\* VecIO::write
write(v, buf) == [v EXCEPT !.output_buffer = @ \o buf]

\* VecIO::write_input
write_input(v, input) == [v EXCEPT !.input_buffer = @ \o input]

(***************************************************************************)
(* Timeline (record.rs): the recorder the debugger attaches.               *)
(***************************************************************************)
\* Timeline::default()
TimelineDefault == [steps |-> <<>>, events |-> <<>>, pending_events |-> 0]

start_step(t, at, instruction) ==
    [t EXCEPT !.steps = Append(@, [at |-> at, instruction |-> instruction, events |-> 0])]

rollback_step(t) ==
    [t EXCEPT !.steps = SubSeq(@, 1, Len(@) - 1), !.pending_events = 0]

commit_step(t) ==
    [t EXCEPT !.steps[Len(t.steps)].events = t.pending_events, !.pending_events = 0]

record_replace(t, at, old, new) ==
    [t EXCEPT !.events = Append(@, [type |-> "Replace", at |-> at, old |-> old, new |-> new])]

record_pop(t, old) == [t EXCEPT !.events = Append(@, [type |-> "Pop", old |-> old])]

record_pop_bottom(t) == [t EXCEPT !.events = Append(@, [type |-> "PopBottom"])]

record_push(t, new) == [t EXCEPT !.events = Append(@, [type |-> "Push", new |-> new])]

record_enter_quote(t) == [t EXCEPT !.events = Append(@, [type |-> "EnterQuote"])]

record_exit_quote(t) == [t EXCEPT !.events = Append(@, [type |-> "ExitQuote"])]

(***************************************************************************)
(* Interpreter (interpreter.rs).  An interpreter is the record             *)
(* [space, cursor, stack, io, recorder].                                   *)
(***************************************************************************)
\* Interpreter::new(space, io, recorder)
InterpreterNew(sp, v, r) ==
    [space |-> sp, cursor |-> CursorDefault, stack |-> <<>>, io |-> v, recorder |-> r]

\* put that stores only into the dense grid of the program
put_dense_only(it, pos, cell) ==
    [it EXCEPT !.recorder = record_replace(@, pos, get_cell(it.space, pos), cell),
               !.space = IF pos.x >= it.space.grid.cols \/ pos.y >= it.space.grid.rows
                         THEN @ ELSE set_cell(@, pos, cell)]

\* Interpreter::put
put(it, pos, cell) ==
    [it EXCEPT !.recorder = record_replace(@, pos, get_cell(it.space, pos), cell),
               !.space = set_cell(@, pos, cell)]

\* Interpreter::move_auto
move_auto(it) ==
    [it EXCEPT !.cursor.pos = move_pos(it.space, it.cursor.pos, it.cursor.dir)]

\* Interpreter::pop: [it, value]; on an empty stack the value is 0
pop(it) ==
    IF Len(it.stack) > 0
    THEN [it    |-> [it EXCEPT !.stack = SubSeq(@, 1, Len(@) - 1),
                               !.recorder = record_pop(@, it.stack[Len(it.stack)])],
          value |-> it.stack[Len(it.stack)]]
    ELSE [it    |-> [it EXCEPT !.recorder = record_pop_bottom(@)],
          value |-> 0]

\* Interpreter::push
push(it, cell) ==
    [it EXCEPT !.recorder = record_push(@, cell), !.stack = Append(@, cell)]

\* format!("{} ", value): the decimal text of an i32 and a space
RECURSIVE NatDigits(_)
NatDigits(n) ==
    IF n < 10 THEN <<Ord["0"] + n>>
    ELSE Append(NatDigits(n \div 10), Ord["0"] + (n % 10))

FormatNumber(n) ==
    IF n >= 0 THEN NatDigits(n) \o <<Ord[" "]>>
    ELSE LET d == (10 - (n % 10)) % 10
             q == (n + d) \div 10
         IN  <<Ord["-"]>> \o (IF q = 0 THEN <<>> ELSE NatDigits(0 - q))
                 \o <<Ord["0"] + d, Ord[" "]>>

\* the instructions that pop two operands and push one result
BinaryOps == {Ord["+"], Ord["-"], Ord["*"], Ord["/"], Ord["%"], Ord["bt"]}

\* BinaryResult with the operands taken in the order they are popped
BinaryResult_swapped(cell, lower, upper) ==
    CASE cell = Ord["+"]  -> wrapping_add(upper, lower)
      [] cell = Ord["-"]  -> wrapping_sub(upper, lower)
      [] cell = Ord["*"]  -> wrapping_mul(upper, lower)
      [] cell = Ord["/"]  -> IF lower = 0 THEN 0 ELSE wrapping_div(upper, lower)
      [] cell = Ord["%"]  -> IF lower = 0 THEN 0 ELSE wrapping_rem(upper, lower)
      [] cell = Ord["bt"] -> IF upper > lower THEN 1 ELSE 0

\* the result the two-operand instructions push; upper is the value popped
\* first, lower the value popped second
BinaryResult(cell, lower, upper) ==
    CASE cell = Ord["+"]  -> wrapping_add(lower, upper)
      [] cell = Ord["-"]  -> wrapping_sub(lower, upper)
      [] cell = Ord["*"]  -> wrapping_mul(lower, upper)
      [] cell = Ord["/"]  -> wrapping_div(lower, upper)
      [] cell = Ord["%"]  -> wrapping_rem(lower, upper)
      [] cell = Ord["bt"] -> IF lower > upper THEN 1 ELSE 0

\* Wrapping<i32> division and remainder panic on a zero divisor
DivisionPanics(cell, upper) == cell \in {Ord["/"], Ord["%"]} /\ upper = 0

\* the direction the arrows set
ArrowDir(cell) ==
    CASE cell = Ord[">"] -> "Right"
      [] cell = Ord["<"] -> "Left"
      [] cell = Ord["^"] -> "Up"
      [] cell = Ord["v"] -> "Down"

\* the tail of step_unquoted: a Completed instruction moves the cursor once
Completed(it) == [it |-> move_auto(it), status |-> "Completed"]

\* step_quoted that treats a space as the no-op it is in Normal mode
step_quoted_drops_space(it, cell) ==
    Completed(IF cell = Ord["\""]
              THEN [it EXCEPT !.cursor.mode = "Normal", !.recorder = record_exit_quote(@)]
              ELSE IF cell = Ord[" "] THEN it
              ELSE [it EXCEPT !.stack = Append(@, GridToStack(cell))])

\* Interpreter::step_quoted: [it, status]
step_quoted(it, cell) ==
    Completed(IF cell = Ord["\""]
              THEN [it EXCEPT !.cursor.mode = "Normal", !.recorder = record_exit_quote(@)]
              ELSE [it EXCEPT !.stack = Append(@, GridToStack(cell))])

\* Interpreter::step_unquoted: [it, status].  rnd is the direction that
\* rand chooses for '?'.  The status "Abort" stands for a panic.
step_unquoted(it, cell, rnd) ==
    LET p1 == pop(it)
        p2 == pop(p1.it)
        p3 == pop(p2.it)
    IN  CASE cell \in BinaryOps ->
                IF DivisionPanics(cell, p1.value)
                THEN [it |-> p2.it, status |-> "Abort"]
                ELSE Completed(push(p2.it, BinaryResult(cell, p2.value, p1.value)))
          [] cell = Ord["!"] ->
                Completed(push(p1.it, IF p1.value = 0 THEN 1 ELSE 0))
          [] cell \in {Ord[">"], Ord["<"], Ord["^"], Ord["v"]} ->
                Completed([it EXCEPT !.cursor.dir = ArrowDir(cell)])
          [] cell = Ord["?"] ->
                Completed([it EXCEPT !.cursor.dir = rnd])
          [] cell = Ord["_"] ->
                Completed([p1.it EXCEPT !.cursor.dir =
                               IF p1.value = 0 THEN "Right" ELSE "Left"])
          [] cell = Ord["|"] ->
                Completed([p1.it EXCEPT !.cursor.dir =
                               IF p1.value = 0 THEN "Down" ELSE "Up"])
          [] cell = Ord["\""] ->
                Completed([it EXCEPT !.cursor.mode = "Quote",
                                     !.recorder = record_enter_quote(@)])
          [] cell = Ord[":"] ->
                Completed(push(push(p1.it, p1.value), p1.value))
          [] cell = Ord["\\"] ->
                Completed(push(push(p2.it, p1.value), p2.value))
          [] cell = Ord["$"] ->
                Completed(p1.it)
          [] cell = Ord["."] ->
                Completed([p1.it EXCEPT !.io = write(@, FormatNumber(p1.value))])
          [] cell = Ord[","] ->
                Completed([p1.it EXCEPT !.io = write(@, <<AsU8(p1.value)>>)])
          [] cell = Ord["#"] ->
                Completed(move_auto(it))
          [] cell = Ord["g"] ->
                Completed(push(p2.it,
                    GridToStack(get_cell(p2.it.space,
                                         Position(AsU8(p2.value), AsU8(p1.value))))))
          [] cell = Ord["p"] ->
                Completed(put(p3.it, Position(AsU8(p2.value), AsU8(p1.value)),
                              StackToGrid(p3.value)))
          [] cell = Ord["&"] ->
                LET r == read_number(it.io)
                IN  IF r.value # None
                    THEN Completed(push([it EXCEPT !.io = r.io], r.value))
                    ELSE [it |-> [it EXCEPT !.io = r.io], status |-> "Waiting"]
          [] cell = Ord["~"] ->
                LET r == read_byte(it.io)
                IN  IF r.value # None
                    THEN Completed(push([it EXCEPT !.io = r.io], r.value))
                    ELSE [it |-> [it EXCEPT !.io = r.io], status |-> "Waiting"]
          [] cell = Ord["@"] ->
                [it |-> it, status |-> "Terminated"]
          [] IsDigit(cell) ->
                Completed(push(it, cell - Ord["0"]))
          [] cell = Ord[" "] ->
                Completed(it)
          [] OTHER ->
                [it |-> it, status |-> "InvalidOpcode"]

\* OnSpace looking one cell ahead of the cursor
OnSpace_ahead(it) ==
    get_cell(it.space, move_pos(it.space, it.cursor.pos, it.cursor.dir)) = Ord[" "]

\* the test of the skip loop: the cell under the cursor is a space
OnSpace(it) == get_cell(it.space, it.cursor.pos) = Ord[" "]

\* the loop of skip_spaces.  Only the cursor position changes in the loop,
\* and it changes as a function of itself, so a position seen again that is
\* not the start is the loop running forever: "Diverge".
RECURSIVE skip_loop(_, _, _)
skip_loop(it, start, seen) ==
    IF ~OnSpace(it) THEN [it |-> it, status |-> "Continue"]
    ELSE LET moved == move_auto(it)
         IN  IF moved.cursor.pos = start
             THEN [it |-> moved, status |-> "InfiniteLoop"]
             ELSE IF moved.cursor.pos \in seen
                  THEN [it |-> moved, status |-> "Diverge"]
                  ELSE skip_loop(moved, start, seen \cup {moved.cursor.pos})

\* Interpreter::skip_spaces: [it, status]; "Continue" stands for None
skip_spaces(it) == skip_loop(it, it.cursor.pos, {it.cursor.pos})

\* the end of step with a cursor that advances whatever the status is
finish_step_always_moves(it, st) ==
    [it        |-> move_auto([it EXCEPT !.recorder =
                        IF st = "Waiting" THEN rollback_step(@) ELSE commit_step(@)]),
     status    |-> st,
     delivered |-> <<"start_step", IF st = "Waiting" THEN "rollback_step" ELSE "commit_step">>]

\* the end of step: the recorder is told how the step ended.  delivered
\* lists the calls of start_step, rollback_step and commit_step the step made.
finish_step(it, st) ==
    [it        |-> [it EXCEPT !.recorder =
                        IF st = "Waiting" THEN rollback_step(@) ELSE commit_step(@)],
     status    |-> st,
     delivered |-> <<"start_step", IF st = "Waiting" THEN "rollback_step" ELSE "commit_step">>]

\* the head of step: the step is started and the instruction under the
\* cursor is dispatched on the mode
execute(it, rnd) ==
    LET cell    == get_cell(it.space, it.cursor.pos)
        started == [it EXCEPT !.recorder = start_step(@, it.cursor.pos, cell)]
    IN  IF it.cursor.mode = "Quote"
        THEN step_quoted(started, cell)
        ELSE step_unquoted(started, cell, rnd)

\* Interpreter::step: [it, status, delivered].  A panic leaves no status; an
\* Error found by skip_spaces is returned at once, the step neither
\* committed nor rolled back.
step(it, rnd) ==
    LET r  == execute(it, rnd)
        sk == skip_spaces(r.it)
    IN  IF r.status = "Abort"
        THEN [it |-> r.it, status |-> r.status, delivered |-> <<"start_step">>]
        ELSE IF r.it.cursor.mode = "Normal" /\ sk.status # "Continue"
        THEN [it |-> sk.it, status |-> sk.status, delivered |-> <<"start_step">>]
        ELSE IF r.it.cursor.mode = "Normal" THEN finish_step(sk.it, r.status)
        ELSE finish_step(r.it, r.status)

(***************************************************************************)
(* The path analysis (analyze.rs): a worklist over (position, direction,   *)
(* mode) that sets, in a Space of State masks, the bit of every direction  *)
(* and mode a cell is reached with.                                        *)
(***************************************************************************)
\* Quoted: Up, Down, Left, and Right masks
QU_MASK == 1
QD_MASK == 2
QL_MASK == 4
QR_MASK == 8
\* Normal: Up, Down, Left, and Right masks
NU_MASK == 16
ND_MASK == 32
NL_MASK == 64
NR_MASK == 128

\* State::default()
StateDefault == 0

\* the mask of State::update for (dir, mode)
MaskOf(dir, mode) ==
    CASE dir = "Up"    /\ mode = "Quote"  -> QU_MASK
      [] dir = "Up"    /\ mode = "Normal" -> NU_MASK
      [] dir = "Down"  /\ mode = "Quote"  -> QD_MASK
      [] dir = "Down"  /\ mode = "Normal" -> ND_MASK
      [] dir = "Left"  /\ mode = "Quote"  -> QL_MASK
      [] dir = "Left"  /\ mode = "Normal" -> NL_MASK
      [] dir = "Right" /\ mode = "Quote"  -> QR_MASK
      [] dir = "Right" /\ mode = "Normal" -> NR_MASK

\* (state.0 & mask) != 0, for a mask of one bit
HasBit(state, mask) == (state \div mask) % 2 = 1

\* State::update: state.0 | mask
update(state, dir, mode) ==
    IF HasBit(state, MaskOf(dir, mode)) THEN state ELSE state + MaskOf(dir, mode)

\* Space::with_size(rows, cols), the cells being State::default()
with_size(rows, cols) ==
    LET g == GridNew(rows, cols)
    IN  [grid |-> [rows  |-> g.rows,
                   cols  |-> g.cols,
                   cells |-> [p \in {Position(x, y) : x \in 0..(g.cols - 1),
                                                      y \in 0..(g.rows - 1)} |->
                                StateDefault]],
         map  |-> [p \in {} |-> StateDefault],
         rows |-> rows,
         cols |-> cols]

\* Space<State>::get_cell: lookup_cell(pos).copied().unwrap_or_default()
get_state(states, pos) ==
    IF lookup_cell(states, pos) = None THEN StateDefault ELSE lookup_cell(states, pos)

\* PathAnalysisState::new(space)
PathAnalysisStateNew(sp) ==
    [space  |-> sp,
     states |-> with_size(sp.rows, sp.cols),
     queue  |-> <<[pos |-> ORIGIN, dir |-> "Right", mode |-> "Normal"]>>]

\* forward, up, down, left, right: the entry pushed on the queue
Toward(sp, pos, dir, mode) == [pos |-> move_pos(sp, pos, dir), dir |-> dir, mode |-> mode]

\* the mode a cell is drawn with: a quote always shows as quoted
DrawMode(cell, mode) == IF cell = Ord["\""] THEN "Quote" ELSE mode

\* the mode the analysis goes on with: a quote flips it
NextMode(cell, mode) ==
    IF cell = Ord["\""] THEN (IF mode = "Quote" THEN "Normal" ELSE "Quote") ELSE mode

\* what the instruction under a cell left in Normal mode pushes on the queue
Successors(sp, cell, pos, dir, mode) ==
    CASE cell = Ord["^"] -> <<Toward(sp, pos, "Up", mode)>>
      [] cell = Ord["v"] -> <<Toward(sp, pos, "Down", mode)>>
      [] cell = Ord["<"] -> <<Toward(sp, pos, "Left", mode)>>
      [] cell = Ord[">"] -> <<Toward(sp, pos, "Right", mode)>>
      [] cell = Ord["?"] -> <<Toward(sp, pos, "Up", mode), Toward(sp, pos, "Down", mode),
                              Toward(sp, pos, "Left", mode), Toward(sp, pos, "Right", mode)>>
      [] cell = Ord["|"] -> <<Toward(sp, pos, "Up", mode), Toward(sp, pos, "Down", mode)>>
      [] cell = Ord["_"] -> <<Toward(sp, pos, "Left", mode), Toward(sp, pos, "Right", mode)>>
      [] cell = Ord["#"] -> <<[pos  |-> move_pos(sp, move_pos(sp, pos, dir), dir),
                               dir  |-> dir,
                               mode |-> mode]>>
      [] cell = Ord["@"] -> <<>>
      [] OTHER           -> <<Toward(sp, pos, dir, mode)>>

\* a fixpoint test that never holds
SameState_never(old, new) == old # old

\* the fixpoint test of the loop: the update set no new bit
SameState(old, new) == old = new

\* the update a turn of the loop makes: the position, the mask of the bit,
\* and whether states.set_cell is called
turn_update(a) ==
    LET head == Head(a.queue)
        old  == get_state(a.states, head.pos)
        mask == MaskOf(head.dir, DrawMode(get_cell(a.space, head.pos), head.mode))
    IN  [pos |-> head.pos, mask |-> mask,
         stored |-> ~SameState(old, update(old, head.dir,
                                           DrawMode(get_cell(a.space, head.pos), head.mode)))]

\* one turn of the while loop of PathAnalysisState::analyze, the queue not
\* being empty
analyze_turn(a) ==
    LET head == Head(a.queue)
        rest == Tail(a.queue)
        cell == get_cell(a.space, head.pos)
        old  == get_state(a.states, head.pos)
        new  == update(old, head.dir, DrawMode(cell, head.mode))
        mode == NextMode(cell, head.mode)
    IN  IF SameState(old, new) THEN [a EXCEPT !.queue = rest]
        ELSE [a EXCEPT !.states = set_cell(@, head.pos, new),
                       !.queue  = rest \o
                           (IF mode = "Quote"
                            THEN <<Toward(a.space, head.pos, head.dir, mode)>>
                            ELSE Successors(a.space, cell, head.pos, head.dir, mode))]

\* PathAnalysisState::analyze: the loop run until the queue is empty
RECURSIVE analyze(_)
analyze(a) == IF a.queue = <<>> THEN a ELSE analyze(analyze_turn(a))

\* analyze_path(space): PathAnalysis {cell_states}
analyze_path(sp) == [cell_states |-> analyze(PathAnalysisStateNew(sp)).states]

(***************************************************************************)
(* The debugger (debugger.rs): the run state, the tick counters and the    *)
(* breakpoints.  The interpreter and the analysis it owns are the          *)
(* variables of their own.                                                 *)
(***************************************************************************)
\* ticks_per_step of Debugger::new
TicksPerStep == 20

\* u16::MAX
MaxU16 == 65535

\* Debugger::new: state is Paused; steps is the count of Stepping { steps }
DebuggerNew ==
    [state |-> "Paused", steps |-> 0, ticks_per_step |-> TicksPerStep,
     ticks_since_step |-> 0, breakpoints |-> {}]

\* a u16 result that left the range: the build with overflow checks panics
\* ("panic"), the build without them wraps ("wrap")
U16(d, value, overflow) ==
    IF value \in 0..MaxU16 THEN [d EXCEPT !.steps = value]
    ELSE IF overflow = "panic" THEN [d EXCEPT !.state = "Abort"]
    ELSE [d EXCEPT !.steps = value % (MaxU16 + 1)]

\* the first half of Debugger::tick: the counter, and step_now with the
\* transition of the run state
tick_due(d, overflow) ==
    LET counted == [d EXCEPT !.ticks_since_step = @ + 1]
        due     == counted.ticks_since_step > counted.ticks_per_step
    IN  CASE d.state = "Paused" -> [d |-> counted, step_now |-> FALSE]
          [] d.state = "Stepping" /\ d.steps = 1 ->
                [d |-> IF due THEN [counted EXCEPT !.state = "Paused", !.steps = 0]
                       ELSE counted,
                 step_now |-> due]
          [] d.state = "Stepping" /\ d.steps # 1 ->
                [d |-> IF due THEN U16(counted, d.steps - 1, overflow) ELSE counted,
                 step_now |-> due /\ U16(counted, d.steps - 1, overflow).state # "Abort"]
          [] d.state = "Running" -> [d |-> counted, step_now |-> due]

\* Debugger::tick: [d, it, status, stepped, returned]; stepped tells that
\* interpreter.step() was called, status is what it returned (st when it
\* was not called), returned is the bool that tick returns (step_now).
\* The status is not looked at.
tick(d, it, st, rnd, overflow) ==
    LET t == tick_due(d, overflow)
        r == step(it, rnd)
    IN  IF ~t.step_now
        THEN [d |-> t.d, it |-> it, status |-> st, stepped |-> FALSE, returned |-> FALSE]
        ELSE IF it.cursor.pos \in d.breakpoints
        THEN [d |-> [t.d EXCEPT !.ticks_since_step = 0, !.state = "Paused", !.steps = 0],
              it |-> it, status |-> st, stepped |-> FALSE, returned |-> TRUE]
        ELSE [d |-> [t.d EXCEPT !.ticks_since_step = 0],
              it |-> r.it, status |-> r.status, stepped |-> TRUE, returned |-> TRUE]

\* Debugger::add_steps
add_steps(d, steps, overflow) ==
    IF d.state = "Stepping" THEN U16(d, d.steps + steps, overflow)
    ELSE [d EXCEPT !.state = "Stepping", !.steps = steps]

\* Debugger::start_running
start_running(d) == [d EXCEPT !.state = "Running", !.steps = 0]

\* Debugger::pause
pause(d) == [d EXCEPT !.state = "Paused", !.steps = 0]

\* Debugger::toggle_breakpoint
toggle_breakpoint(d, pos) ==
    [d EXCEPT !.breakpoints = IF pos \in @ THEN @ \ {pos} ELSE @ \cup {pos}]

(***************************************************************************)
(* The virtual terminal (terminal.rs): the display, the committed input    *)
(* that can be read, and the prompt line that key events edit until Enter  *)
(* commits it.  Every operation gives [t, panic]: the terminal it leaves   *)
(* and whether it panicked.  cursor is a usize, kept as its representative *)
(* modulo the word size: -k stands for usize::MAX - k + 1.                 *)
(***************************************************************************)
\* VirtualTerminal::default()
VirtualTerminalDefault ==
    [display |-> <<>>, newline_indices |-> <<>>, available_input |-> <<>>,
     uncommitted |-> <<>>, cursor |-> 0, dirty |-> FALSE]

Ran(t) == [t |-> t, panic |-> FALSE]
Panicked(t) == [t |-> t, panic |-> TRUE]

\* Vec::insert(index, byte), for an index of 0..len
InsertAt(v, index, byte) == SubSeq(v, 1, index) \o <<byte>> \o SubSeq(v, index + 1, Len(v))

\* Vec::remove(index), for an index of 0..len-1
RemoveAt(v, index) == SubSeq(v, 1, index) \o SubSeq(v, index + 2, Len(v))

\* char::is_ascii
is_ascii(c) == c < 128

\* char::to_ascii_uppercase
to_ascii_uppercase(c) == IF c >= 97 /\ c <= 122 THEN c - 32 ELSE c

\* VirtualTerminal::left
left(t) ==
    IF t.cursor = 0 THEN Ran(t)
    ELSE Ran([t EXCEPT !.cursor = @ - 1, !.dirty = TRUE])

\* VirtualTerminal::right; cursor + 1 overflows at usize::MAX
right(t, overflow) ==
    IF t.cursor = Len(t.uncommitted) THEN Ran(t)
    ELSE IF t.cursor = 0 - 1 /\ overflow = "panic" THEN Panicked(t)
    ELSE Ran([t EXCEPT !.cursor = @ + 1, !.dirty = TRUE])

\* VirtualTerminal::input_key; Vec::insert panics on an index above len
input_key(t, c, shift) ==
    IF ~is_ascii(c) THEN Ran(t)
    ELSE IF t.cursor \notin 0..Len(t.uncommitted) THEN Panicked(t)
    ELSE Ran([t EXCEPT !.uncommitted =
                           InsertAt(@, t.cursor, IF shift THEN to_ascii_uppercase(c) ELSE c),
                       !.cursor = @ + 1,
                       !.dirty = TRUE])

\* VirtualTerminal::backspace; Vec::remove panics on an index of len or more
backspace(t) ==
    IF Len(t.uncommitted) = 0 THEN Ran(t)
    ELSE IF t.cursor = 0 THEN Ran(t)
    ELSE IF t.cursor - 1 \notin 0..(Len(t.uncommitted) - 1) THEN Panicked(t)
    ELSE Ran([t EXCEPT !.uncommitted = RemoveAt(@, t.cursor - 1),
                       !.cursor = @ - 1,
                       !.dirty = TRUE])

\* VirtualTerminal::delete: the byte at the cursor is removed and then the
\* cursor is decremented, which underflows when the cursor is 0
delete(t, overflow) ==
    IF t.cursor = Len(t.uncommitted) THEN Ran(t)
    ELSE IF t.cursor \notin 0..(Len(t.uncommitted) - 1) THEN Panicked(t)
    ELSE IF t.cursor = 0 /\ overflow = "panic"
    THEN Panicked([t EXCEPT !.uncommitted = RemoveAt(@, t.cursor)])
    ELSE Ran([t EXCEPT !.uncommitted = RemoveAt(@, t.cursor),
                       !.cursor = @ - 1,
                       !.dirty = TRUE])

\* commit, were the index recorded the one where the committed line begins
commit_records_line_start(t) ==
    LET i    == Len(t.display)
        line == Append(t.uncommitted, Ord["\n"])
    IN  Ran([t EXCEPT !.newline_indices = Append(@, i),
                      !.available_input = @ \o line,
                      !.display = @ \o line,
                      !.uncommitted = <<>>,
                      !.cursor = 0,
                      !.dirty = TRUE])

\* VirtualTerminal::commit
commit(t) ==
    LET i    == Len(t.display) + Len(t.uncommitted)
        line == Append(t.uncommitted, Ord["\n"])
    IN  Ran([t EXCEPT !.newline_indices = Append(@, i),
                      !.available_input = @ \o line,
                      !.display = @ \o line,
                      !.uncommitted = <<>>,
                      !.cursor = 0,
                      !.dirty = TRUE])

\* on_key_event: a key event is [kind, code, c, shift], c the character of
\* a Char code and shift the SHIFT modifier
on_key_event(t, event, overflow) ==
    IF event.kind \notin {"Press", "Repeat"} THEN Ran(t)
    ELSE CASE event.code = "Backspace" -> backspace(t)
           [] event.code = "Enter"     -> commit(t)
           [] event.code = "Left"      -> left(t)
           [] event.code = "Right"     -> right(t, overflow)
           [] event.code = "Delete"    -> delete(t, overflow)
           [] event.code = "Char"      -> input_key(t, event.c, event.shift)
           [] OTHER                    -> Ran(t)

\* VirtualTerminal::get_line: [ok, bytes], ok "None", "Some", or "Panic" when
\* the slice display[start..end] is out of order or out of range
get_line(t, line) ==
    LET newlines == Len(t.newline_indices)
        start    == IF line = 0 THEN 0 ELSE t.newline_indices[line] + 1
        end      == IF line = newlines THEN Len(t.display) ELSE t.newline_indices[line + 1]
    IN  IF line > newlines THEN [ok |-> "None", bytes |-> <<>>]
        ELSE IF start > end \/ end > Len(t.display) THEN [ok |-> "Panic", bytes |-> <<>>]
        ELSE [ok |-> "Some", bytes |-> SubSeq(t.display, start + 1, end)]

\* VirtualTerminal::num_lines
num_lines(t) == Len(t.newline_indices) + 1

\* VirtualTerminal::dirty: [t, value]
dirty(t) == [t |-> [t EXCEPT !.dirty = FALSE], value |-> t.dirty]

\* read_byte, were the byte committed last the one taken
terminal_read_byte_takes_last(t) ==
    IF Len(t.available_input) = 0 THEN [t |-> t, value |-> None]
    ELSE [t     |-> [t EXCEPT !.available_input = SubSeq(@, 1, Len(@) - 1)],
          value |-> t.available_input[Len(t.available_input)]]

\* <VirtualTerminal as IO>::read_byte: [t, value], value None on no input
terminal_read_byte(t) ==
    IF Len(t.available_input) = 0 THEN [t |-> t, value |-> None]
    ELSE [t |-> [t EXCEPT !.available_input = Tail(@)], value |-> Head(t.available_input)]

\* read_number, were every byte taken when no number can be read
terminal_read_number_skips_all(t) ==
    LET r    == try_read_number(t.available_input)
        skip == IF r.ok THEN r.offset ELSE Len(t.available_input)
    IN  [t     |-> [t EXCEPT !.available_input = SubSeq(@, skip + 1, Len(@))],
         value |-> IF r.ok THEN r.num ELSE None]

\* <VirtualTerminal as IO>::read_number: [t, value]; the bytes of the number,
\* or the bytes that can be skipped when there is none, are taken
terminal_read_number(t) ==
    LET r    == try_read_number(t.available_input)
        skip == IF r.ok THEN r.offset ELSE r.skippable
    IN  [t     |-> [t EXCEPT !.available_input = SubSeq(@, skip + 1, Len(@))],
         value |-> IF r.ok THEN r.num ELSE None]

\* write, were the newlines indexed by their place in buf
terminal_write_indexes_buf(t, buf) ==
    LET newlines == SelectSeq([i \in 1..Len(buf) |-> i], LAMBDA i : buf[i] = Ord["\n"])
    IN  [t EXCEPT !.newline_indices = @ \o [k \in 1..Len(newlines) |-> newlines[k] - 1],
                  !.display = @ \o buf,
                  !.dirty = TRUE]

\* <VirtualTerminal as IO>::write
terminal_write(t, buf) ==
    LET len      == Len(t.display)
        newlines == SelectSeq([i \in 1..Len(buf) |-> i], LAMBDA i : buf[i] = Ord["\n"])
    IN  [t EXCEPT !.newline_indices = @ \o [k \in 1..Len(newlines) |-> len + newlines[k] - 1],
                  !.display = @ \o buf,
                  !.dirty = TRUE]

(***************************************************************************)
(* The command prompt (tui/tabs.rs): CommandsView holds the text of the    *)
(* output area, the command line being typed, a String kept here as its    *)
(* UTF-8 bytes, and the cursor in it, a u16.  Every operation gives        *)
(* [v, event, panic]: the view it leaves, the CommandEvent it returns      *)
(* (NoEvent for None) and whether it panicked.                             *)
(***************************************************************************)
\* a text of the output area: the words of it (kind) and the values
\* formatted into it (detail)
Output(kind, detail) == [kind |-> kind, detail |-> detail]

\* the text shown by the help command: HELP_OUTPUT
HELP_OUTPUT == Output("Help", <<>>)

\* CommandError::to_string()
ErrorString(error) ==
    CASE error.error = "UnknownCommand" -> Output("error: unknown command alias", error.arg)
      [] error.error = "TooFewArguments" -> Output("error: too few arguments", <<>>)
      [] error.error = "TooManyArguments" ->
             Output("error: too many arguments", <<error.expected, Len(error.found)>>)

\* CommandsView::default()
CommandsViewDefault == [output |-> HELP_OUTPUT, input_contents |-> <<>>, input_cursor |-> 0]

\* Option::None where the code returns an Option<CommandEvent>
NoEvent == [name |-> "None"]

Handled(v, event) == [v |-> v, event |-> event, panic |-> FALSE]
Aborted(v) == [v |-> v, event |-> NoEvent, panic |-> TRUE]

\* the UTF-8 encoding of a char below U+0800
Utf8(c) == IF c < 128 THEN <<c>> ELSE <<192 + (c \div 64), 128 + (c % 64)>>

\* str::is_char_boundary
is_char_boundary(str, index) ==
    \/ index = 0
    \/ index = Len(str)
    \/ index > 0 /\ index < Len(str) /\ str[index + 1] \notin 128..191

\* String::insert(index, c): panics unless index is a char boundary
string_insert(str, index, c) == SubSeq(str, 1, index) \o Utf8(c) \o SubSeq(str, index + 1, Len(str))

\* String::remove(index): the char that begins at byte index is removed;
\* panics unless a char begins there
string_remove(str, index) ==
    SubSeq(str, 1, index) \o
    SubSeq(str, index + 1 + (IF str[index + 1] < 128 THEN 1 ELSE 2), Len(str))

\* str::split(' '): the pieces between the spaces, at least one
RECURSIVE split(_)
split(str) ==
    IF \A i \in 1..Len(str) : str[i] # Ord[" "] THEN <<str>>
    ELSE LET first == CHOOSE i \in 1..Len(str) :
                          str[i] = Ord[" "] /\ \A j \in 1..(i - 1) : str[j] # Ord[" "]
         IN  <<SubSeq(str, 1, first - 1)>> \o split(SubSeq(str, first + 1, Len(str)))

\* the value of a string of digits, capped above every integer type parsed
RECURSIVE DigitsValue(_)
DigitsValue(str) ==
    IF Len(str) = 0 THEN 0
    ELSE LET v == 10 * DigitsValue(SubSeq(str, 1, Len(str) - 1)) + (str[Len(str)] - Ord["0"])
         IN  IF v > MaxU16 THEN MaxU16 + 1 ELSE v

\* str::parse::<u8>() and ::<u16>(): the value, or None for an Err: digits
\* after an optional '+', of a value of at most max
parse(str, max) ==
    LET digits == IF Len(str) > 0 /\ str[1] = Ord["+"] THEN Tail(str) ELSE str
    IN  IF Len(digits) = 0 \/ \E i \in 1..Len(digits) : ~IsDigit(digits[i]) THEN None
        ELSE IF DigitsValue(digits) > max THEN None
        ELSE DigitsValue(digits)

\* the byte value of the letters the command words are written in
Letters ==
    ("a" :> 97) @@ ("b" :> 98) @@ ("d" :> 100) @@ ("e" :> 101) @@ ("h" :> 104) @@
    ("i" :> 105) @@ ("k" :> 107) @@ ("l" :> 108) @@ ("n" :> 110) @@ ("o" :> 111) @@
    ("p" :> 112) @@ ("q" :> 113) @@ ("r" :> 114) @@ ("s" :> 115) @@ ("t" :> 116) @@
    ("u" :> 117)

\* the words of the commands
Word(text) == [i \in 1..Len(text) |-> Letters[text[i]]]
HelpWords == {Word(<<"h">>), Word(<<"h", "e", "l", "p">>)}
LoadWords == {Word(<<"l">>), Word(<<"l", "o", "a", "d">>)}
StepWords == {Word(<<"s">>), Word(<<"s", "t", "e", "p">>)}
RunWords == {Word(<<"r">>), Word(<<"r", "u", "n">>)}
PauseWords == {Word(<<"p">>), Word(<<"p", "a", "u", "s", "e">>)}
BreakpointWords == {Word(<<"b">>), Word(<<"b", "r", "e", "a", "k", "p", "o", "i", "n", "t">>)}
QuitWords == {Word(<<"q">>), Word(<<"q", "u", "i", "t">>)}

ParsedNone == [ok |-> "None"]
ParsedPanic == [ok |-> "Panic"]
TooFewArguments(command, expected) ==
    [ok |-> "Err", error |-> "TooFewArguments", command |-> command, expected |-> expected]
UnknownCommand(arg) == [ok |-> "Err", error |-> "UnknownCommand", arg |-> arg]

\* the end of parse_command: arguments left over are TooManyArguments
collect_rest(command, expected, args, used) ==
    IF Len(args) > used + 1
    THEN [ok |-> "Err", error |-> "TooManyArguments", command |-> command,
          expected |-> expected, found |-> SubSeq(args, used + 2, Len(args))]
    ELSE [ok |-> "Command", command |-> command]

\* CommandsView::parse_command; args[1] is the command word
parse_command(v) ==
    LET args  == split(v.input_contents)
        first == args[1]
        arg(k) == args[k + 1]
        has(k) == Len(args) > k
    IN  IF first \in HelpWords THEN collect_rest([name |-> "Help"], 0, args, 0)
        ELSE IF first \in LoadWords
        THEN IF has(1) THEN collect_rest([name |-> "Load", path |-> arg(1)], 1, args, 1)
             ELSE TooFewArguments([name |-> "Load", path |-> <<>>], 1)
        ELSE IF first \in StepWords
        THEN IF has(1)
             THEN IF parse(arg(1), MaxU16) = None THEN ParsedPanic
                  ELSE collect_rest([name |-> "Step", n |-> parse(arg(1), MaxU16)], 1, args, 1)
             ELSE collect_rest([name |-> "Step", n |-> 1], 0, args, 0)
        ELSE IF first \in RunWords THEN collect_rest([name |-> "Run"], 0, args, 0)
        ELSE IF first \in PauseWords THEN collect_rest([name |-> "Pause"], 0, args, 0)
        ELSE IF first \in BreakpointWords
        THEN IF ~has(1) THEN TooFewArguments([name |-> "Breakpoint", pos |-> ORIGIN], 2)
             ELSE IF parse(arg(1), 255) = None THEN ParsedPanic
             ELSE IF ~has(2) THEN TooFewArguments([name |-> "Load", path |-> <<>>], 2)
             ELSE IF parse(arg(2), 255) = None THEN ParsedPanic
             ELSE collect_rest([name |-> "Breakpoint",
                                pos |-> Position(parse(arg(1), 255), parse(arg(2), 255))],
                               2, args, 2)
        ELSE IF first \in QuitWords THEN collect_rest([name |-> "Quit"], 0, args, 0)
        ELSE IF first = <<>> THEN ParsedNone
        ELSE UnknownCommand(first)

\* the Enter arm of on_key_event: the command is parsed; a command clears
\* the command line and sets the output, an error sets the output
enter(v) ==
    LET parsed  == parse_command(v)
        command == parsed.command
        cleared == [v EXCEPT !.input_contents = <<>>, !.input_cursor = 0]
    IN  IF parsed.ok = "Panic" THEN Aborted(v)
        ELSE IF parsed.ok = "None" THEN Handled(v, NoEvent)
        ELSE IF parsed.ok = "Err" THEN Handled([v EXCEPT !.output = ErrorString(parsed)], NoEvent)
        ELSE CASE command.name = "Help" ->
                    Handled([cleared EXCEPT !.output = HELP_OUTPUT], NoEvent)
               [] command.name = "Load" ->
                    Handled([cleared EXCEPT !.output = Output("Loading", command.path)], command)
               [] command.name = "Step" ->
                    Handled([cleared EXCEPT !.output =
                                 IF command.n = 1 THEN Output("Taking n steps", <<command.n>>)
                                 ELSE Output("Taking 1 step", <<>>)],
                            command)
               [] command.name = "Run" ->
                    Handled([cleared EXCEPT !.output = Output("Running...", <<>>)], command)
               [] command.name = "Pause" ->
                    Handled([cleared EXCEPT !.output = Output("Paused", <<>>)], command)
               [] command.name = "Breakpoint" ->
                    Handled([cleared EXCEPT !.output =
                                 Output("Setting breakpoint at", <<command.pos.x, command.pos.y>>)],
                            command)
               [] command.name = "Quit" -> Handled(cleared, command)

\* <CommandsView as ListenForKey>::on_key_event; the kind and the modifiers
\* of the event are not looked at
commands_on_key_event(v, event, overflow) ==
    LET len == Len(v.input_contents)
    IN  CASE event.code = "Left" ->
                 Handled(IF v.input_cursor > 0 THEN [v EXCEPT !.input_cursor = @ - 1] ELSE v,
                         NoEvent)
          [] event.code = "Right" ->
                 IF len = 0 /\ overflow = "panic" THEN Aborted(v)
                 ELSE LET max_cursor == IF len = 0 THEN MaxU16 ELSE (len - 1) % (MaxU16 + 1)
                      IN  Handled(IF v.input_cursor < max_cursor
                                  THEN [v EXCEPT !.input_cursor = @ + 1] ELSE v,
                                  NoEvent)
          [] event.code = "Backspace" ->
                 IF v.input_cursor = 0 THEN Handled(v, NoEvent)
                 ELSE IF v.input_cursor - 1 >= len
                         \/ ~is_char_boundary(v.input_contents, v.input_cursor - 1)
                 THEN Aborted(v)
                 ELSE Handled([v EXCEPT !.input_contents = string_remove(@, v.input_cursor - 1),
                                        !.input_cursor = @ - 1],
                              NoEvent)
          [] event.code = "Enter" -> enter(v)
          [] event.code = "Char" ->
                 IF v.input_cursor > len \/ ~is_char_boundary(v.input_contents, v.input_cursor)
                 THEN Aborted(v)
                 ELSE Handled([v EXCEPT !.input_contents = string_insert(@, v.input_cursor, event.c),
                                        !.input_cursor = @ + 1],
                              NoEvent)
          [] OTHER -> Handled(v, NoEvent)

(***************************************************************************)
(* The programs and the inputs explored.                                   *)
(***************************************************************************)
DigitChars == {"0", "1", "2", "3", "4", "5", "6", "7", "8", "9"}

\* every instruction alone on the grid, run from an empty stack
OneCellPrograms ==
    {<<c>> : c \in {"+", "-", "*", "/", "%", "bt", "!", "_", "|", ":", "\\", "$", ".",
                    ",", "#", "g", "p", "&", "~", "@", "?", "x", "\"", " ", "<", "^"}}

\* a digit alone, and a digit followed by a space
DigitPrograms == {<<d>> : d \in DigitChars} \cup {<<d, " ">> : d \in DigitChars}

\* two bytes read from the input and combined by a two-operand instruction
BinaryPrograms ==
    {<<"~", "~", c, ".", "@">> : c \in {"+", "-", "*", "/", "%", "bt"}}

ScenarioPrograms ==
    { <<>>,
      <<" ", " ">>,
      <<"2", "3", "+", ".", "@">>,
      <<"\"", "H", "i", "\"", ",", ",", "@">>,
      <<"9", "1", "1", "p">>,
      <<"v", "<", "\n", ">", "^">>,
      <<"&", ".", "@">>,
      <<"7", "0", "g", " ", " ", " ", " ", "4">>,
      <<"7", "9", "0", "p">>,
      <<" ", "<">>,
      <<"\"", "a", "\"", " ", "1", "@">>,
      <<"\"", " ", "a", "\"", ",", "@">>,
      <<"<", "\"", "a", "i">>,
      <<"9", "9", "*", "9", "*", ".", "@">>,
      <<"0", "1", "-", ".", "@">>,
      <<"0", "7", "-", "2", "/", ".", "@">>,
      <<"0", "7", "-", "2", "%", ".", "@">>,
      <<"~", ":", "*", ":", "*", ":", "+", ".", "@">>,
      <<"?", "1", "\n", "2", "@">>,
      <<"1", "#", "2", "3", "\\", "$", "!", "_">>,
      <<"0", "1", "-", "0", "p">>,
      <<"v", "\n", "v", "\n", ">", "0", "1", "-", "p", "^">>,
      <<"v", "\n", "v", " ", " ", " ", " ", " ", "~", "\n",
        ">", "0", "1", "-", "p", " ", "^">>,
      <<" ", " ", "v", "\n", " ", " ", "1", "\n", " ", " ", "-", "\n",
        " ", " ", "0", "\n", " ", " ", "p", "\n", " ", " ", "<">>,
      <<"#", "1", "<">>,
      <<"\"", "a">>,
      <<"9", "1", "1", "p", "1", "1", "g", ".", "@">>,
      <<"9", "9", "g", ",", "@">>,
      <<"v", "\n", "2", "\n", "#", "\n", "^">>,
      <<"<", "@", "\"">>,
      <<"^", "\n", "@", "\n", "\"">> }

Programs ==
    {Bytes(text) : text \in OneCellPrograms \cup DigitPrograms \cup BinaryPrograms
                               \cup ScenarioPrograms}

\* what one write_input call may append: "7\n", and the bytes 0 and 255
InputChunks == {Bytes(<<"7", "\n">>), <<0>>, <<255>>}

(***************************************************************************)
(* The state machine: an interpreter is built from a program and then      *)
(* stepped, while input is written to its VecIO.                           *)
(***************************************************************************)
\* the interpreter held in the variables
Interp ==
    [space |-> space, cursor |-> cursor, stack |-> stack, io |-> io, recorder |-> recorder]

\* step() has returned, or has not been called yet
Returned == status \notin {"Abort", "Diverge"}

Init ==
    \E program \in Programs :
        LET it == InterpreterNew(SpaceNew(program), VecIODefault, TimelineDefault)
        IN  /\ space = it.space
            /\ cursor = it.cursor
            /\ stack = it.stack
            /\ io = it.io
            /\ recorder = it.recorder
            /\ status = "NotStarted"
            /\ analysis = analyze(PathAnalysisStateNew(it.space))
            /\ debugger = DebuggerNew
            /\ commands = CommandsViewDefault
            /\ terminal = VirtualTerminalDefault
            /\ pre = [op |-> "new", it |-> it, status |-> "NotStarted", delivered |-> <<>>,
                      initial |-> it.space]
            /\ nsteps = 0

\* interpreter.step()
Step ==
    /\ Returned
    /\ nsteps < MaxSteps
    /\ \E rnd \in (IF get_cell(space, cursor.pos) = Ord["?"] /\ cursor.mode = "Normal"
                   THEN Directions ELSE {"Right"}) :
          LET r == step(Interp, rnd)
          IN  /\ space' = r.it.space
              /\ cursor' = r.it.cursor
              /\ stack' = r.it.stack
              /\ io' = r.it.io
              /\ recorder' = r.it.recorder
              /\ status' = r.status
              /\ pre' = [op |-> "step", it |-> Interp, status |-> status,
                         delivered |-> r.delivered, initial |-> pre.initial]
    /\ nsteps' = nsteps + 1
    /\ UNCHANGED <<analysis, debugger, commands, terminal>>

\* interpreter.io_mut().write_input(input).  The interpreter sees the input
\* buffer only when it executes '&' or '~', and the buffer is a queue, so
\* input written between two reads is input written before the first of
\* them: it is written before the first step, or while a read is waiting.
WriteInput ==
    /\ Returned
    /\ nsteps = 0 \/ status = "Waiting"
    /\ \E input \in InputChunks :
          /\ Len(io.input_buffer) + Len(input) <= MaxInput
          /\ io' = write_input(io, input)
    /\ pre' = [op |-> "write_input", it |-> Interp, status |-> status, delivered |-> <<>>,
               initial |-> pre.initial]
    /\ UNCHANGED <<space, cursor, stack, recorder, status, analysis, debugger, commands, terminal, nsteps>>

Next == Step \/ WriteInput

Spec == Init /\ [][Next]_vars

(***************************************************************************)
(* What the claims speak of.                                               *)
(***************************************************************************)
\* the last operation was a call of step()
Stepped == pre.op = "step"

\* the position, the instruction byte and the mode the last step() began with
StepPos == pre.it.cursor.pos
StepCell == get_cell(pre.it.space, pre.it.cursor.pos)
StepMode == pre.it.cursor.mode

\* the statuses of the Status enum
Statuses == {"Completed", "Waiting", "Terminated", "InvalidOpcode", "InfiniteLoop"}

\* the cursor gets from position from to position to by moves in direction
\* dir that leave only spaces behind
RECURSIVE OverSpaces(_, _, _, _, _)
OverSpaces(sp, from, to, dir, fuel) ==
    \/ from = to
    \/ /\ fuel > 0
       /\ get_cell(sp, from) = Ord[" "]
       /\ OverSpaces(sp, move_pos(sp, from, dir), to, dir, fuel - 1)

\* more moves than any skip makes over distinct positions of a line
LineFuel == 256 + 1

(***************************************************************************)
(* C1 (stated as claimed): every call of step() returns one of Completed,  *)
(* Waiting, Terminated, Error(InvalidOpcode), Error(InfiniteLoop); it      *)
(* never aborts, also not on '/' and '%' with a zero divisor.              *)
(***************************************************************************)
C1_StepReturnsAStatus == Stepped => status \in Statuses

(***************************************************************************)
(* C2 (stated as claimed): a step on '&' or '~' that finds no input        *)
(* returns Waiting and leaves cursor, stack and space as they were; the    *)
(* step made after a Waiting one, once the input holds a number (a byte),  *)
(* executes the same instruction and returns Completed.                    *)
(***************************************************************************)
\* the input buffer the last step() began with can supply the instruction
InputSuffices ==
    \/ StepCell = Ord["&"] /\ read_number(pre.it.io).value # None
    \/ StepCell = Ord["~"] /\ read_byte(pre.it.io).value # None

C2_WaitingIsRetried ==
    Stepped /\ StepMode = "Normal" /\ StepCell \in {Ord["&"], Ord["~"]} =>
        /\ ~InputSuffices =>
              /\ status = "Waiting"
              /\ cursor = pre.it.cursor
              /\ stack = pre.it.stack
              /\ space = pre.it.space
        /\ pre.status = "Waiting" /\ InputSuffices =>
              /\ status = "Completed"
              /\ Len(stack) = Len(pre.it.stack) + 1

C4_ExactlyOneMove ==
    Stepped /\ StepMode = "Normal" =>
        /\ status = "Completed" /\ StepCell # Ord["#"] =>
              cursor.pos = move_pos(space, StepPos, cursor.dir)
        /\ status \in {"Waiting", "Terminated"} => cursor.pos = StepPos

(***************************************************************************)
(* C5 (stated as claimed): one step of a fresh interpreter on the one-row  *)
(* program d, or d followed by a space, d a digit, returns Completed and   *)
(* leaves stack [d], direction Right and the cursor at (1,0).              *)
(***************************************************************************)
C5_PushDigit ==
    \A d \in DigitChars :
        /\ Stepped /\ nsteps = 1
        /\ pre.it.space \in {SpaceNew(Bytes(<<d>>)), SpaceNew(Bytes(<<d, " ">>))}
        => /\ status = "Completed"
           /\ stack = <<Ord[d] - Ord["0"]>>
           /\ cursor.dir = "Right"
           /\ cursor.pos = Position(1, 0)

(***************************************************************************)
(* C6: a step on one of + - * / % and the backtick, with a below b on top  *)
(* of the stack, removes both and pushes a OP b (1 if a > b else 0 for the *)
(* backtick): the value popped first is the right operand.  Stated for     *)
(* operands whose result needs no wrapping, and a divisor other than 0.    *)
(***************************************************************************)
Abs(v) == IF v < 0 THEN 0 - v ELSE v

\* a OP b in the integers; the division rounds toward zero
MathResult(cell, a, b) ==
    LET q == IF (a < 0) # (b < 0) THEN 0 - (Abs(a) \div Abs(b)) ELSE Abs(a) \div Abs(b)
    IN  CASE cell = Ord["+"]  -> a + b
          [] cell = Ord["-"]  -> a - b
          [] cell = Ord["*"]  -> a * b
          [] cell = Ord["/"]  -> q
          [] cell = Ord["%"]  -> a - b * q
          [] cell = Ord["bt"] -> IF a > b THEN 1 ELSE 0

\* the operands of the last step, 0 standing for one the stack did not hold
OperandA ==
    IF Len(pre.it.stack) >= 2 THEN pre.it.stack[Len(pre.it.stack) - 1] ELSE 0
OperandB ==
    IF Len(pre.it.stack) >= 1 THEN pre.it.stack[Len(pre.it.stack)] ELSE 0

C6_SecondPopIsLeftOperand ==
    /\ Stepped /\ StepMode = "Normal" /\ StepCell \in BinaryOps
    /\ Len(pre.it.stack) >= 2
    /\ Abs(OperandA) <= 46340 /\ Abs(OperandB) <= 46340
    /\ ~DivisionPanics(StepCell, OperandB)
    => stack = SubSeq(pre.it.stack, 1, Len(pre.it.stack) - 2)
                   \o <<MathResult(StepCell, OperandA, OperandB)>>

\* a subtraction of two different operands has been executed
C6_Witness ==
    /\ Stepped /\ StepMode = "Normal" /\ StepCell = Ord["-"]
    /\ Len(pre.it.stack) >= 2
    /\ OperandA # OperandB
    /\ stack = <<OperandA - OperandB>>

ByteOf(a, k) == (a \div (256 ^ k)) % 256

\* the i32 whose bytes are the column sums c0..c3 after carrying
FromColumns(c0, c1, c2, c3) ==
    LET t1 == c1 + (c0 \div 256)
        t2 == c2 + (t1 \div 256)
        t3 == (c3 + (t2 \div 256)) % 256
        u  == (c0 % 256) + 256 * (t1 % 256) + 65536 * (t2 % 256)
    IN  IF t3 >= 128 THEN (t3 - 256) * 16777216 + u ELSE t3 * 16777216 + u

Mod2to32(cell, a, b) ==
    LET a0 == ByteOf(a, 0)  a1 == ByteOf(a, 1)  a2 == ByteOf(a, 2)  a3 == ByteOf(a, 3)
        b0 == ByteOf(b, 0)  b1 == ByteOf(b, 1)  b2 == ByteOf(b, 2)  b3 == ByteOf(b, 3)
    IN  CASE cell = Ord["+"] -> FromColumns(a0 + b0, a1 + b1, a2 + b2, a3 + b3)
          [] cell = Ord["-"] -> FromColumns(a0 + (255 - b0) + 1, a1 + (255 - b1),
                                            a2 + (255 - b2), a3 + (255 - b3))
          [] cell = Ord["*"] -> FromColumns(a0 * b0,
                                            a0 * b1 + a1 * b0,
                                            a0 * b2 + a1 * b1 + a2 * b0,
                                            a0 * b3 + a1 * b2 + a2 * b1 + a3 * b0)

Pops(cell) ==
    IF cell = Ord["p"] THEN 3
    ELSE IF cell \in BinaryOps \cup {Ord["\\"], Ord["g"]} THEN 2
    ELSE IF cell \in {Ord["!"], Ord["_"], Ord["|"], Ord[":"], Ord["$"], Ord["."], Ord[","]}
    THEN 1 ELSE 0

\* the events the last step recorded
StepEvents == SubSeq(recorder.events, Len(pre.it.recorder.events) + 1, Len(recorder.events))

C8_UnderflowIsNeverFatal ==
    Stepped /\ StepMode = "Normal" /\ Pops(StepCell) > Len(pre.it.stack) =>
        /\ status \in Statuses
        /\ Cardinality({i \in DOMAIN StepEvents : StepEvents[i].type = "PopBottom"})
              = Pops(StepCell) - Len(pre.it.stack)
        /\ StepCell = Ord[":"] => stack = <<0, 0>>
        /\ StepCell = Ord["\\"] => stack = <<OperandB, 0>>

(***************************************************************************)
(* C9 (stated as claimed): in Quote mode a step on a byte other than '"'   *)
(* pushes the byte and a step on '"' returns to Normal mode and pushes     *)
(* nothing; in both cases the status is Completed and the cursor advances  *)
(* by exactly one move.                                                    *)
(***************************************************************************)
C9_QuoteStepIsOneMove ==
    Stepped /\ StepMode = "Quote" =>
        /\ status = "Completed"
        /\ cursor.pos = move_pos(pre.it.space, StepPos, pre.it.cursor.dir)
        /\ StepCell # Ord["\""] =>
              cursor.mode = "Quote" /\ stack = Append(pre.it.stack, StepCell)
        /\ StepCell = Ord["\""] =>
              cursor.mode = "Normal" /\ stack = pre.it.stack

(***************************************************************************)
(* C9 (amended): in Quote mode a step on a byte other than '"' pushes the  *)
(* byte (a space as 32), returns Completed and advances the cursor by      *)
(* exactly one move, nothing being skipped while the mode stays Quote; a   *)
(* step on '"' returns to Normal mode, pushes nothing, and advances the    *)
(* cursor by one move and then, as after any Normal-mode step, past the    *)
(* spaces that follow, ending on a non-space cell when it returns          *)
(* Completed.                                                              *)
(***************************************************************************)
C9_QuoteStep ==
    Stepped /\ StepMode = "Quote" =>
        /\ cursor.dir = pre.it.cursor.dir /\ space = pre.it.space
        /\ StepCell # Ord["\""] =>
              /\ status = "Completed"
              /\ cursor.mode = "Quote"
              /\ stack = Append(pre.it.stack, StepCell)
              /\ cursor.pos = move_pos(space, StepPos, cursor.dir)
        /\ StepCell = Ord["\""] =>
              /\ cursor.mode = "Normal"
              /\ stack = pre.it.stack
              /\ OverSpaces(space, move_pos(space, StepPos, cursor.dir), cursor.pos,
                            cursor.dir, LineFuel)
              /\ status = "Completed" => get_cell(space, cursor.pos) # Ord[" "]

\* a closing quote has been executed and the cursor went on over a space
C9_Witness ==
    /\ Stepped /\ StepMode = "Quote" /\ StepCell = Ord["\""]
    /\ status = "Completed"
    /\ cursor.pos # move_pos(space, StepPos, cursor.dir)
    /\ \E i \in DOMAIN stack : stack[i] = Ord["a"]

(***************************************************************************)
(* C10 (stated as claimed): the space skip always ends: it stops on a      *)
(* non-space cell or returns Error(InfiniteLoop); step() never loops for   *)
(* ever, whatever extent p has made.                                       *)
(***************************************************************************)
C10_SkipTerminates == Stepped => status # "Diverge"

(***************************************************************************)
(* C11 (stated as claimed): '#' skips exactly one cell of the extent in    *)
(* every direction, also where the move wraps at an edge of the grid: the  *)
(* next cell of the extent in the direction of travel is passed over and   *)
(* execution resumes at the cell after it, when that cell holds an         *)
(* instruction.                                                            *)
(***************************************************************************)
\* the next cell of the extent in direction dir, wrapping at the edges
ExtentNext(sp, pos, dir) ==
    CASE dir = "Right" -> Position((pos.x + 1) % sp.cols, pos.y)
      [] dir = "Left"  -> Position((pos.x - 1) % sp.cols, pos.y)
      [] dir = "Down"  -> Position(pos.x, (pos.y + 1) % sp.rows)
      [] dir = "Up"    -> Position(pos.x, (pos.y - 1) % sp.rows)

C11_HashSkipsOneCell ==
    /\ Stepped /\ StepMode = "Normal" /\ StepCell = Ord["#"]
    /\ StepPos.x < space.cols /\ StepPos.y < space.rows
    => LET skipped == ExtentNext(space, StepPos, cursor.dir)
           resumed == ExtentNext(space, skipped, cursor.dir)
       IN  get_cell(space, resumed) # Ord[" "] => cursor.pos = resumed

(***************************************************************************)
(* C12: 'p' executed with v, x, y on top of the stack (y topmost) removes  *)
(* the three values and sets cell (x, y) to v, also when (x, y) lies       *)
(* outside the initial extent, so that get((x, y)) returns v afterwards;   *)
(* 'g' executed with x, y on top of the stack replaces them by the value   *)
(* of cell (x, y), which is a space (32) for a cell never written.  Stated *)
(* for v, x, y that are bytes, as cells and coordinates are.               *)
(***************************************************************************)
\* the k-th value from the top of the stack the last step began with (1 = top)
FromTop(k) == pre.it.stack[Len(pre.it.stack) + 1 - k]

\* the stack the last step began with, less its k topmost values
Below(k) == SubSeq(pre.it.stack, 1, Len(pre.it.stack) - k)

SpacePrograms ==
    {Bytes(text) : text \in { <<>>,
                              <<"1", "2", "\n", "3">>,
                              <<"\n", "a">> }}

\* the coordinates moves start from: the ends of the 8-bit range
EdgeCoordinates == {0, 1, 255}

SetPositions ==
    {Position(0, 0), Position(1, 1), Position(2, 0), Position(255, 0), Position(0, 255)}

SetCells == {Ord[" "], Ord["a"]}

ProbePositions == {Position(x, y) : x \in EdgeCoordinates, y \in EdgeCoordinates}

\* u8 + 1 leaves the range: the build with overflow checks panics
MoveOverflows(pos, dir) ==
    \/ dir = "Right" /\ pos.x = 255
    \/ dir = "Down" /\ pos.y = 255

SpaceInit ==
    \E program \in SpacePrograms :
        /\ space = SpaceNew(program)
        /\ cursor = CursorDefault
        /\ stack = <<>>
        /\ io = VecIODefault
        /\ recorder = TimelineDefault
        /\ status = "NotStarted"
        /\ analysis = PathAnalysisStateNew(SpaceNew(program))
        /\ debugger = DebuggerNew
        /\ commands = CommandsViewDefault
        /\ terminal = VirtualTerminalDefault
        /\ pre = [op |-> "new", program |-> program, written |-> [p \in {} |-> 0],
                  before |-> SpaceNew(program), pos |-> ORIGIN, further |-> FALSE]
        /\ nsteps = 0

\* space.set_cell(pos, cell); the position of the last move is forgotten
SetCell ==
    /\ status = "NotStarted"
    /\ Cardinality(DOMAIN pre.written) < MaxSets
    /\ \E pos \in SetPositions, cell \in SetCells :
          /\ space' = set_cell(space, pos, cell)
          /\ pre' = [pre EXCEPT !.op = "set_cell",
                                !.written = [p \in (DOMAIN pre.written) \cup {pos} |->
                                                IF p = pos THEN cell ELSE pre.written[p]],
                                !.before = space,
                                !.pos = pos,
                                !.further = FALSE]
    /\ cursor' = CursorDefault
    /\ UNCHANGED <<stack, io, recorder, status, analysis, debugger, commands, terminal, nsteps>>

\* space.move_pos(pos, dir), from a position of the range, or once more
\* from the position the last move returned (further)
MovePos ==
    /\ status = "NotStarted"
    /\ \E further \in BOOLEAN, dir \in Directions, overflow \in {"panic", "wrap"} :
          \E pos \in (IF further THEN {cursor.pos} ELSE ProbePositions) :
              /\ further => pre.op = "move_pos" /\ ~pre.further
              /\ overflow = "panic" => MoveOverflows(pos, dir)
              /\ IF overflow = "panic"
                 THEN status' = "Abort" /\ cursor' = cursor
                 ELSE /\ status' = status
                      /\ cursor' = [cursor EXCEPT !.pos = move_pos(space, pos, dir),
                                                  !.dir = dir]
              /\ pre' = [pre EXCEPT !.op = "move_pos", !.before = space, !.pos = pos,
                                    !.further = further]
    /\ UNCHANGED <<space, stack, io, recorder, analysis, debugger, commands, terminal, nsteps>>

SpaceNext == SetCell \/ MovePos

SpaceSpec == SpaceInit /\ [][SpaceNext]_vars

(***************************************************************************)
(* C13: the Space is a total map with a default: after construction from   *)
(* a program text and any sequence of set_cell calls, get_cell returns at  *)
(* every position the cell most recently set there, else the program byte  *)
(* there if the position lies inside a program row, else a space; and      *)
(* set_cell(p, c) changes what get_cell returns at no position but p,      *)
(* whether p falls in the dense grid or in the sparse map.                 *)
(***************************************************************************)
\* the rows of a program text: the runs of bytes between the newlines
RECURSIVE TextRows(_, _)
TextRows(program, row) ==
    IF program = <<>> THEN (IF row = <<>> THEN <<>> ELSE <<row>>)
    ELSE IF Head(program) = 10 THEN <<row>> \o TextRows(Tail(program), <<>>)
    ELSE TextRows(Tail(program), Append(row, Head(program)))

\* what a total map with default holds at pos
MapWithDefault(program, written, pos) ==
    LET rows == TextRows(program, <<>>)
    IN  IF pos \in DOMAIN written THEN written[pos]
        ELSE IF pos.y < Len(rows) /\ pos.x < Len(rows[pos.y + 1])
             THEN rows[pos.y + 1][pos.x + 1]
        ELSE 32

C13_TotalMapWithDefault ==
    pre.op \in {"new", "set_cell", "move_pos"} /\ "written" \in DOMAIN pre =>
        /\ \A p \in ProbePositions \cup SetPositions :
              get_cell(space, p) = MapWithDefault(pre.program, pre.written, p)
        /\ pre.op = "set_cell" =>
              \A p \in (ProbePositions \cup SetPositions) \ {pre.pos} :
                  get_cell(space, p) = get_cell(pre.before, p)

\* a cell of the dense grid and a cell of the sparse map have both been
\* set, the cell of the grid to a space over a program byte
C13_Witness ==
    /\ pre.op = "set_cell" /\ "written" \in DOMAIN pre
    /\ Position(0, 0) \in DOMAIN pre.written /\ pre.written[Position(0, 0)] = 32
    /\ get_cell(SpaceNew(pre.program), Position(0, 0)) = Ord["1"]
    /\ Position(255, 0) \in DOMAIN space.map
    /\ get_cell(space, Position(255, 0)) = Ord["a"]
    /\ get_cell(space, Position(0, 0)) = 32

(***************************************************************************)
(* C14 (stated as claimed): in every Space reached by construction and     *)
(* set_cell calls, for every position with x < cols and y < rows,          *)
(* move(pos, Right) = ((x + 1) mod cols, y) and                            *)
(* move(pos, Down) = (x, (y + 1) mod rows), rows and cols being the extent *)
(* after the sets, which reaches 256.                                      *)
(***************************************************************************)
\* the last operation was a move that returned
Moved == pre.op = "move_pos" /\ status = "NotStarted"

C14_RightDownWrapAtExtent ==
    Moved /\ pre.pos.x < space.cols /\ pre.pos.y < space.rows =>
        /\ cursor.dir = "Right" =>
              cursor.pos = Position((pre.pos.x + 1) % space.cols, pre.pos.y)
        /\ cursor.dir = "Down" =>
              cursor.pos = Position(pre.pos.x, (pre.pos.y + 1) % space.rows)

(***************************************************************************)
(* C15 (stated as claimed): move((0, y), Left) returns (cols, y) and       *)
(* move((x, 0), Up) returns (x, rows), the extent and not the extent less  *)
(* one; a further move in the same direction from there returns            *)
(* (cols - 1, y) and (x, rows - 1); for x > 0 Left returns (x - 1, y) and  *)
(* for y > 0 Up returns (x, y - 1).                                        *)
(***************************************************************************)
C15_LeftUpWrapToExtent ==
    Moved =>
        /\ cursor.dir = "Left" =>
              cursor.pos = Position(IF pre.pos.x = 0 THEN space.cols ELSE pre.pos.x - 1,
                                    pre.pos.y)
        /\ cursor.dir = "Up" =>
              cursor.pos = Position(pre.pos.x,
                                    IF pre.pos.y = 0 THEN space.rows ELSE pre.pos.y - 1)

(***************************************************************************)
(* The path analysis on its own: analyze_path runs on the Space of a       *)
(* program text, one turn of its loop at a time.  pre holds the program    *)
(* text and the log of the state updates made (position and bit).          *)
(***************************************************************************)
AnalyzePrograms ==
    {Bytes(text) : text \in
        { <<>>,
          <<"v", "<", "\n", ">", "^">>,
          <<"\"", "a">>,
          <<"#", "1", "<">>,
          <<"?", "1", "\n", "2", "@">>,
          <<"1", "_", "\n", "|", "\"">>,
          <<"?", "?", "?", "?", "?", "?", "\n", "?", "\n", "?", "\n", "?", "\n",
            "?", "\n", "?">> }}

AnalyzeInit ==
    \E program \in AnalyzePrograms :
        /\ space = SpaceNew(program)
        /\ cursor = CursorDefault
        /\ stack = <<>>
        /\ io = VecIODefault
        /\ recorder = TimelineDefault
        /\ status = "NotStarted"
        /\ analysis = PathAnalysisStateNew(SpaceNew(program))
        /\ debugger = DebuggerNew
        /\ commands = CommandsViewDefault
        /\ terminal = VirtualTerminalDefault
        /\ pre = [op |-> "analyze", program |-> program, log |-> <<>>]
        /\ nsteps = 0

\* one turn of the loop of analyze
AnalyzeTurn ==
    /\ pre.op = "analyze"
    /\ analysis.queue # <<>>
    /\ analysis' = analyze_turn(analysis)
    /\ pre' = [pre EXCEPT !.log = IF turn_update(analysis).stored
                                  THEN Append(@, [pos  |-> turn_update(analysis).pos,
                                                  mask |-> turn_update(analysis).mask])
                                  ELSE @]
    /\ UNCHANGED <<space, cursor, stack, io, recorder, status, debugger, commands, terminal, nsteps>>

AnalyzeNext == AnalyzeTurn

\* the loop goes on while the queue holds an entry
AnalyzeSpec == AnalyzeInit /\ [][AnalyzeNext]_vars /\ WF_vars(AnalyzeNext)

\* analyze has returned
Analyzed == analysis.queue = <<>>

(***************************************************************************)
(* C16 (stated as claimed): the path analysis over-approximates the        *)
(* execution: for a program that never executes 'p', at the start of every *)
(* step of the interpreter the analysis has set, on the cell of the        *)
(* cursor, the bit of the cursor's direction and mode (the Quote bit of    *)
(* the direction on a cell holding a quote).                               *)
(***************************************************************************)
\* no cell of the Space holds 'p': the program never executes it
NeverPuts(sp) == \A pos \in DOMAIN sp.grid.cells : sp.grid.cells[pos] # Ord["p"]

C16_AnalysisCoversExecution ==
    /\ pre.op \in {"new", "step", "write_input"}
    /\ status \in {"NotStarted", "Completed", "Waiting"}
    /\ NeverPuts(analysis.space)
    => HasBit(get_state(analysis.states, cursor.pos),
              MaskOf(cursor.dir, DrawMode(get_cell(space, cursor.pos), cursor.mode)))

(***************************************************************************)
(* C17 (stated as claimed): for every program text B, analyze_path         *)
(* terminates, sets each of the 8 bits of a cell at most once, and makes   *)
(* at most 8 * |B| state updates, |B| being the number of bytes of the     *)
(* text.                                                                   *)
(***************************************************************************)
\* no bit of a cell has been set twice
EachBitOnce == Cardinality({pre.log[i] : i \in DOMAIN pre.log}) = Len(pre.log)

C17_AtMostEightPerByte ==
    /\ [](pre.op = "analyze" => EachBitOnce /\ Len(pre.log) <= 8 * Len(pre.program))
    /\ <>Analyzed

(***************************************************************************)
(* C17 (amended): for every program text, analyze_path terminates, sets    *)
(* each of the 8 bits of a position at most once, and sets bits only at    *)
(* positions with x <= cols and y <= rows, cols and rows being the extent  *)
(* of the Space: it makes at most 8 * (rows + 1) * (cols + 1) state        *)
(* updates, which can exceed 8 * |B| for a text with ragged rows (and is 1 *)
(* for the empty text).                                                    *)
(***************************************************************************)
C17_AtMostEightPerPosition ==
    /\ [](pre.op = "analyze" =>
             /\ EachBitOnce
             /\ \A i \in DOMAIN pre.log :
                    pre.log[i].pos.x <= space.cols /\ pre.log[i].pos.y <= space.rows
             /\ Len(pre.log) <= 8 * (space.rows + 1) * (space.cols + 1))
    /\ <>Analyzed

\* the analysis of a text of ragged rows has returned after more than
\* 8 * |B| updates
C17_Witness ==
    /\ pre.op = "analyze" /\ Analyzed
    /\ Len(pre.program) > 0
    /\ Len(pre.log) > 8 * Len(pre.program)
    /\ space.rows * space.cols > Len(pre.program)

(***************************************************************************)
(* C18 (stated as claimed): for the two-row program "v<", ">^" the         *)
(* analysis marks each of the four cells (0,0), (1,0), (0,1), (1,1) with   *)
(* the bits of at least two directions.                                    *)
(***************************************************************************)
\* the directions a State holds a bit of, in either mode
DirectionsOf(state) ==
    {dir \in Directions : \E mode \in Modes : HasBit(state, MaskOf(dir, mode))}

C18_FourCellsTwoDirections ==
    /\ pre.op = "analyze" /\ Analyzed
    /\ pre.program = Bytes(<<"v", "<", "\n", ">", "^">>)
    => \A pos \in {Position(0, 0), Position(1, 0), Position(0, 1), Position(1, 1)} :
           Cardinality(DirectionsOf(get_state(analysis.states, pos))) >= 2

(***************************************************************************)
(* The debugger: it is built from a program, ticked by the clock and       *)
(* given commands.  pre holds what the claims need of the past: whether a  *)
(* step has returned Terminated or an Error (halted), whether a step was   *)
(* made after that (after_halt), the steps requested and invoked since the *)
(* debugger last left Paused by add_steps, and whether nothing but         *)
(* add_steps and ticks without a breakpoint hit happened since (clean);    *)
(* the last call (last), the debugger and the interpreter before it (was,  *)
(* it), whether the last tick called step() and what it returned (stepped, *)
(* returned); the ticks made since the step before the last tick, that     *)
(* tick included (since), and whether one of them hit a breakpoint (hit)   *)
(* or found the debugger Paused (idle).                                    *)
(***************************************************************************)
DebugPrograms ==
    {Bytes(text) : text \in { <<"@">>, <<"x">>, <<"1", "2", "+", "@">>, <<"1", "<">> }}

\* the arguments of add_steps explored: the ends of the u16 range
StepCounts == {0, 1, 2, MaxU16}

BreakPositions == {Position(1, 0)}

DebugInit ==
    \E program \in DebugPrograms :
        LET it == InterpreterNew(SpaceNew(program), VecIODefault, TimelineDefault)
        IN  /\ space = it.space
            /\ cursor = it.cursor
            /\ stack = it.stack
            /\ io = it.io
            /\ recorder = it.recorder
            /\ status = "NotStarted"
            /\ analysis = analyze(PathAnalysisStateNew(it.space))
            /\ debugger = DebuggerNew
            /\ commands = CommandsViewDefault
            /\ terminal = VirtualTerminalDefault
            /\ pre = [op |-> "debugger", halted |-> FALSE, after_halt |-> FALSE,
                      requested |-> 0, invoked |-> 0, clean |-> TRUE, commands |-> 0,
                      last |-> "new", was |-> DebuggerNew, it |-> it,
                      stepped |-> FALSE, returned |-> FALSE,
                      since |-> 0, hit |-> FALSE, idle |-> FALSE]
            /\ nsteps = 0

\* the debugger can be called: neither it nor the interpreter has panicked
DebugAlive == debugger.state # "Abort" /\ Returned

\* debugger.tick().  While Paused the tick only counts, and the count is
\* followed up to the tick that is due.
Tick ==
    /\ DebugAlive
    /\ nsteps < MaxDebugSteps
    /\ debugger.state = "Paused" => debugger.ticks_since_step <= debugger.ticks_per_step
    /\ \E overflow \in {"panic", "wrap"} :
          \E r \in {tick(debugger, Interp, status, "Right", overflow)} :
              /\ debugger' = r.d
              /\ space' = r.it.space
              /\ cursor' = r.it.cursor
              /\ stack' = r.it.stack
              /\ io' = r.it.io
              /\ recorder' = r.it.recorder
              /\ status' = r.status
              /\ nsteps' = IF r.stepped THEN nsteps + 1 ELSE nsteps
              /\ pre' = [pre EXCEPT
                     !.halted = @ \/ (r.stepped /\ r.status \in {"Terminated", "InvalidOpcode",
                                                                  "InfiniteLoop"}),
                     !.after_halt = @ \/ (pre.halted /\ r.stepped),
                     !.invoked = IF r.stepped THEN @ + 1 ELSE @,
                     !.clean = @ /\ ~(tick_due(debugger, overflow).step_now
                                        /\ cursor.pos \in debugger.breakpoints),
                     !.last = "tick", !.was = debugger, !.it = Interp,
                     !.stepped = r.stepped, !.returned = r.returned,
                     !.since = IF pre.stepped THEN 1 ELSE @ + 1,
                     !.hit = (~pre.stepped /\ @) \/ (r.returned /\ ~r.stepped),
                     !.idle = (~pre.stepped /\ @) \/ debugger.state = "Paused"]
    /\ UNCHANGED <<analysis, commands, terminal>>

\* what a command leaves alone
Commanded ==
    /\ DebugAlive
    /\ pre.commands < MaxCommands
    /\ UNCHANGED <<space, cursor, stack, io, recorder, status, analysis, commands, terminal, nsteps>>

\* debugger.add_steps(steps)
AddSteps ==
    /\ Commanded
    /\ \E steps \in StepCounts, overflow \in {"panic", "wrap"} :
          /\ debugger' = add_steps(debugger, steps, overflow)
          /\ pre' = IF debugger.state = "Stepping"
                    THEN [pre EXCEPT !.requested = @ + steps, !.commands = @ + 1,
                                     !.last = "add_steps"]
                    ELSE [pre EXCEPT !.requested = steps, !.invoked = 0,
                                     !.clean = (debugger.state = "Paused"),
                                     !.commands = @ + 1, !.last = "add_steps"]

\* debugger.start_running()
StartRunning ==
    /\ Commanded
    /\ debugger' = start_running(debugger)
    /\ pre' = [pre EXCEPT !.clean = FALSE, !.commands = @ + 1, !.last = "start_running"]

\* debugger.pause()
Pause ==
    /\ Commanded
    /\ debugger' = pause(debugger)
    /\ pre' = [pre EXCEPT !.clean = FALSE, !.commands = @ + 1, !.last = "pause"]

\* debugger.toggle_breakpoint(pos)
ToggleBreakpoint ==
    /\ Commanded
    /\ \E pos \in BreakPositions : debugger' = toggle_breakpoint(debugger, pos)
    /\ pre' = [pre EXCEPT !.commands = @ + 1, !.last = "toggle_breakpoint"]

DebugNext == Tick \/ AddSteps \/ StartRunning \/ Pause \/ ToggleBreakpoint

DebugSpec == DebugInit /\ [][DebugNext]_vars

(***************************************************************************)
(* C19 (stated as claimed): once interpreter.step() has returned           *)
(* Terminated or an Error during a tick, the run state of the debugger is  *)
(* Halted and stays so: no later tick, add_steps, start_running or pause   *)
(* changes it or calls interpreter.step() again.                           *)
(***************************************************************************)
C19_HaltedIsFinal ==
    pre.op = "debugger" /\ pre.halted =>
        /\ debugger.state = "Halted"
        /\ ~pre.after_halt

(***************************************************************************)
(* C20 (stated as claimed): step counts are exact: from Paused, after      *)
(* add_steps(n) and any add_steps(m) given while still Stepping, with no   *)
(* breakpoint hit and no run or pause command, the debugger calls          *)
(* interpreter.step() exactly n + m times and is Paused then, for every n  *)
(* and m in 0..65535.                                                      *)
(***************************************************************************)
C20_StepCountsAreExact ==
    pre.op = "debugger" /\ pre.clean =>
        /\ debugger.state # "Abort"
        /\ pre.invoked <= pre.requested
        /\ debugger.state = "Stepping" => debugger.steps = pre.requested - pre.invoked
        /\ debugger.state = "Paused" => pre.invoked = pre.requested

(***************************************************************************)
(* C21 (stated as claimed): on a due tick with the cursor on a breakpoint  *)
(* the debugger becomes Paused and interpreter.step() is not called: tick  *)
(* never executes the instruction at a position that is a breakpoint, and  *)
(* such a tick leaves the interpreter and the breakpoint set unchanged.    *)
(***************************************************************************)
\* the last call was a tick
Ticked == pre.op = "debugger" /\ pre.last = "tick"

\* the last tick was due: more than ticks_per_step ticks had been counted
WasDue == pre.was.ticks_since_step + 1 > pre.was.ticks_per_step

C21_BreakpointPausesBeforeStep ==
    Ticked /\ pre.it.cursor.pos \in pre.was.breakpoints =>
        /\ ~pre.stepped
        /\ Interp = pre.it
        /\ debugger.breakpoints = pre.was.breakpoints
        /\ WasDue => debugger.state = "Paused"

(***************************************************************************)
(* C22 (stated as claimed): while the debugger is Running or Stepping and  *)
(* the cursor is not on a breakpoint, tick calls interpreter.step() on     *)
(* exactly the ticks at which more than ticks_per_step ticks have passed   *)
(* since the previous step: consecutive steps are exactly                  *)
(* ticks_per_step + 1 ticks apart, and no tick makes more than one step.   *)
(***************************************************************************)
C22_StepsAreTicksPerStepApart ==
    /\ Ticked /\ pre.was.state \in {"Running", "Stepping"}
    /\ pre.it.cursor.pos \notin pre.was.breakpoints
    /\ ~pre.hit
    => /\ pre.stepped <=> pre.since > pre.was.ticks_per_step
       /\ Len(recorder.steps) <= Len(pre.it.recorder.steps) + 1
       /\ pre.stepped /\ ~pre.idle /\ nsteps > 1 => pre.since = pre.was.ticks_per_step + 1

(***************************************************************************)
(* C23: tick() returns true if and only if interpreter.step() was invoked  *)
(* during that tick: it returns false on every tick in Paused state and on *)
(* a due tick whose step was skipped because the cursor is on a            *)
(* breakpoint.                                                             *)
(***************************************************************************)
C23_ReturnsWhetherStepped ==
    Ticked /\ debugger.state # "Abort" => (pre.returned <=> pre.stepped)

(***************************************************************************)
(* C24 (stated as claimed): every call of step() that returns a status     *)
(* delivers to the recorder exactly one start_step and then exactly one of *)
(* commit_step (status other than Waiting) or rollback_step (status        *)
(* Waiting), and after a rollback the Timeline holds no step entry and no  *)
(* event of that step: it is what it was before the step.                  *)
(***************************************************************************)
C24_StartThenCommitOrRollback ==
    Stepped /\ Returned =>
        /\ pre.delivered =
              <<"start_step", IF status = "Waiting" THEN "rollback_step" ELSE "commit_step">>
        /\ status = "Waiting" => recorder = pre.it.recorder

\* the replay of one Timeline event on [stack, space, mode]
ApplyEvent(s, e) ==
    CASE e.type = "Push"       -> [s EXCEPT !.stack = Append(@, e.new)]
      [] e.type = "Pop"        -> [s EXCEPT !.stack = SubSeq(@, 1, Len(@) - 1)]
      [] e.type = "PopBottom"  -> s
      [] e.type = "Replace"    -> [s EXCEPT !.space = set_cell(@, e.at, e.new)]
      [] e.type = "EnterQuote" -> [s EXCEPT !.mode = "Quote"]
      [] e.type = "ExitQuote"  -> [s EXCEPT !.mode = "Normal"]

\* the replay of the events from the i-th on
RECURSIVE Replay(_, _, _)
Replay(s, events, i) ==
    IF i > Len(events) THEN s ELSE Replay(ApplyEvent(s, events[i]), events, i + 1)

\* the replay of the whole Timeline on the state of a new interpreter
Replayed ==
    Replay([stack |-> <<>>, space |-> pre.initial, mode |-> "Normal"], recorder.events, 1)

(***************************************************************************)
(* C25 (stated as claimed): after any number of steps, the Timeline's      *)
(* events applied in order to an empty stack, the initial Space and Normal *)
(* mode yield the interpreter's current stack, Space and mode.             *)
(***************************************************************************)
C25_ReplayReproducesInterpreter ==
    Returned =>
        /\ Replayed.stack = stack
        /\ Replayed.space = space
        /\ Replayed.mode = cursor.mode

(***************************************************************************)
(* read_number on its own: it is applied to an input drawn from the byte   *)
(* strings of a bounded length and from the strings of the tests of io.rs, *)
(* held by a VecIO and by a VirtualTerminal, and applied again after a     *)
(* further line has arrived.  The history pre keeps the two buffers the    *)
(* last read_number found (input, tinput), what it returned (value,        *)
(* tvalue), the numbers of reads and of lines so far, the buffers of the   *)
(* last read_number if it found the input to end in digits and returned    *)
(* None (none_input, none_tinput), the same for the read_number before the *)
(* last (waited, twaited), and whether a line has arrived since the last   *)
(* read_number (fresh) and between the last two (lined).                   *)
(***************************************************************************)
\* a letter, a space, and digits that reach and pass 255
ReadBytes == {Ord["a"], Ord[" "], Ord["1"], Ord["2"], Ord["5"], Ord["6"]}

\* the inputs of test_try_read_number (io.rs:242-266) and of the examples
TestInputs ==
    {Bytes(t) : t \in {<<"a", "l", "i", "c", "e", " ", "b", "o", "b", " ", "c", "h", "a", "r", "l", "i", "e", "2", "3", "5", "6", "2", "3", "4", "7">>,
                       <<"a", "6", "6", "$">>,
                       <<"1", " ">>,
                       <<"2", "4", "\n">>,
                       <<"a", "6", "6">>,
                       <<"1">>,
                       <<"1", "1">>,
                       <<"a", " ", "b", " ", "c">>,
                       <<"a", "b", "c", "1", "2", "x", "y", "z">>,
                       <<"1", "2">>}}

ReadInputs == TestInputs \cup UNION {[1..n -> ReadBytes] : n \in 0..MaxReadLen}

\* the lines that arrive later, without their newline
ReadLines == {<<>>, Bytes(<<"3">>), Bytes(<<"a">>)}

\* the number of bytes before the first digit of an input
Lead(input) ==
    CHOOSE k \in 0..Len(input) :
        /\ \A i \in 1..k : ~IsDigit(input[i])
        /\ k = Len(input) \/ IsDigit(input[k + 1])

\* the length of the run of digits that begins there
RunLen(input) ==
    CHOOSE n \in 0..(Len(input) - Lead(input)) :
        /\ \A i \in 1..n : IsDigit(input[Lead(input) + i])
        /\ Lead(input) + n = Len(input) \/ ~IsDigit(input[Lead(input) + n + 1])

\* the input ends right after a run of digits
EndsInDigits(input) ==
    RunLen(input) > 0 /\ Lead(input) + RunLen(input) = Len(input)

ReadInit ==
    \E input \in ReadInputs :
        LET it == InterpreterNew(SpaceNew(<<>>), write_input(VecIODefault, input),
                                 TimelineDefault)
        IN  /\ space = it.space
            /\ cursor = it.cursor
            /\ stack = it.stack
            /\ io = it.io
            /\ recorder = it.recorder
            /\ status = "NotStarted"
            /\ analysis = PathAnalysisStateNew(it.space)
            /\ debugger = DebuggerNew
            /\ commands = CommandsViewDefault
            /\ terminal = [VirtualTerminalDefault EXCEPT !.available_input = input]
            /\ pre = [op |-> "new", input |-> input, tinput |-> input,
                      value |-> None, tvalue |-> None, reads |-> 0, lines |-> 0,
                      none_input |-> <<>>, none_tinput |-> <<>>,
                      waited |-> <<>>, twaited |-> <<>>, fresh |-> FALSE, lined |-> FALSE]
            /\ nsteps = 0

\* io.read_number() on the VecIO and on the VirtualTerminal
ReadNumber ==
    /\ pre.reads < MaxReads
    /\ io' = read_number(io).io
    /\ terminal' = terminal_read_number(terminal).t
    /\ pre' = [pre EXCEPT !.op = "read_number",
                          !.input = io.input_buffer,
                          !.tinput = terminal.available_input,
                          !.value = read_number(io).value,
                          !.tvalue = terminal_read_number(terminal).value,
                          !.reads = @ + 1,
                          !.none_input =
                              IF read_number(io).value = None /\ EndsInDigits(io.input_buffer)
                              THEN io.input_buffer ELSE <<>>,
                          !.none_tinput =
                              IF /\ terminal_read_number(terminal).value = None
                                 /\ EndsInDigits(terminal.available_input)
                              THEN terminal.available_input ELSE <<>>,
                          !.waited = pre.none_input,
                          !.twaited = pre.none_tinput,
                          !.lined = pre.fresh,
                          !.fresh = FALSE]
    /\ UNCHANGED <<space, cursor, stack, recorder, status, analysis, debugger, commands, nsteps>>

\* a further line arrives: write_input on the VecIO, the line typed and
\* committed on the VirtualTerminal
ReadLine ==
    /\ pre.lines < 1
    /\ \E line \in ReadLines :
          /\ io' = write_input(io, Append(line, Ord["\n"]))
          /\ terminal' = commit([terminal EXCEPT !.uncommitted = line,
                                                 !.cursor = Len(line)]).t
    /\ pre' = [pre EXCEPT !.op = "line", !.lines = @ + 1, !.fresh = TRUE]
    /\ UNCHANGED <<space, cursor, stack, recorder, status, analysis, debugger, commands, nsteps>>

ReadNext == ReadNumber \/ ReadLine

ReadSpec == ReadInit /\ [][ReadNext]_vars

\* the decimal value of the first n digits of the run, 256 for every value
\* above 255
RECURSIVE Decimal(_, _)
Decimal(input, n) ==
    IF n = 0 THEN 0
    ELSE LET v == 10 * Decimal(input, n - 1) + (input[Lead(input) + n] - Ord["0"])
         IN  IF v > 255 THEN 256 ELSE v

\* the length of the longest prefix of the run whose value is at most 255
Used(input) ==
    CHOOSE n \in 0..RunLen(input) :
        /\ Decimal(input, n) <= 255
        /\ \A m \in (n + 1)..RunLen(input) : Decimal(input, m) > 255

\* a number can be read: there is a digit, and a byte follows the prefix
Readable(input) ==
    RunLen(input) > 0 /\ Lead(input) + Used(input) < Len(input)

\* read_number on input returned value and left the buffer left as C26 says
ReadAsClaimed(input, value, buffer) ==
    /\ value = Decimal(input, Used(input))
    /\ buffer = SubSeq(input, Lead(input) + Used(input) + 1, Len(input))

(***************************************************************************)
(* C26: read_number skips the leading non-digit bytes and returns the      *)
(* decimal value of the longest prefix of the following digit run whose    *)
(* value is at most 255, provided a byte follows that prefix; it consumes  *)
(* the skipped bytes and the digits used and leaves the rest in the        *)
(* buffer.                                                                 *)
(***************************************************************************)
C26_ReadsLongestPrefixUpTo255 ==
    pre.op = "read_number" =>
        /\ Readable(pre.input) => ReadAsClaimed(pre.input, pre.value, io.input_buffer)
        /\ Readable(pre.tinput) =>
              ReadAsClaimed(pre.tinput, pre.tvalue, terminal.available_input)

\* "abc12xyz" was read: 12, and "xyz" is left; the digits of "...23562347"
\* were read up to 235
C26_Witness ==
    /\ pre.op = "read_number"
    /\ \/ /\ pre.input = Bytes(<<"a", "b", "c", "1", "2", "x", "y", "z">>)
          /\ pre.value = 12 /\ io.input_buffer = Bytes(<<"x", "y", "z">>)
       \/ /\ pre.tinput = Bytes(<<"a", "l", "i", "c", "e", " ", "b", "o", "b", " ", "c", "h", "a", "r", "l", "i", "e", "2", "3", "5", "6", "2", "3", "4", "7">>)
          /\ pre.tvalue = 235

\* the input without k of the bytes before its first digit, for every k
Stripped(input) == {SubSeq(input, k + 1, Len(input)) : k \in 0..Lead(input)}

\* the last read_number was made on what an earlier one kept and a line
\* that has arrived since, and it returned the number that begins with the
\* digits kept
ReadComplete(kept, input, value) ==
    /\ input \in {k \o Append(line, Ord["\n"]) : k \in kept, line \in ReadLines}
    /\ value # None
    /\ value = Decimal(input, Used(input))

\* what C27 says of the inputs that satisfy Ends
KeptUntilComplete(Ends(_)) ==
    pre.op = "read_number" =>
        /\ Ends(pre.input) => pre.value = None /\ io.input_buffer \in Stripped(pre.input)
        /\ Ends(pre.tinput) =>
              pre.tvalue = None /\ terminal.available_input \in Stripped(pre.tinput)
        /\ pre.lined /\ pre.waited # <<>> /\ Ends(pre.waited) =>
              ReadComplete({pre.waited}, pre.input, pre.value)
        /\ pre.lined /\ pre.twaited # <<>> /\ Ends(pre.twaited) =>
              ReadComplete(Stripped(pre.twaited), pre.tinput, pre.tvalue)

\* the input ends right after a run of digits whose value is at most 255
EndsInDigitsUpTo255(input) ==
    EndsInDigits(input) /\ Decimal(input, RunLen(input)) <= 255

(***************************************************************************)
(* C27 (stated as claimed): if the input ends right after a run of digits, *)
(* read_number returns None and leaves the digits in the buffer, at most   *)
(* the bytes before the first digit being discarded, and a read_number     *)
(* made after a further line has arrived returns the complete number.      *)
(***************************************************************************)
C27_DigitsAtEndAreKept == KeptUntilComplete(EndsInDigits)

(***************************************************************************)
(* C27 (amended): the same, of a run of digits whose value is at most 255. *)
(* A run whose value passes 255 is cut before the digit that passes it,    *)
(* and that digit ends the number as any other byte does (C26).            *)
(***************************************************************************)
C27_DigitsUpTo255AtEndAreKept == KeptUntilComplete(EndsInDigitsUpTo255)

\* "12" alone gave None, and 123 once "3" and a newline had arrived
C27_Witness ==
    /\ pre.op = "read_number"
    /\ pre.lined
    /\ pre.waited = Bytes(<<"1", "2">>)
    /\ pre.twaited = Bytes(<<"1", "2">>)
    /\ pre.value = 123
    /\ pre.tvalue = 123

(***************************************************************************)
(* The virtual terminal on its own: a new terminal receives key events,    *)
(* the writes of the program and its reads.  A panic of a handler is       *)
(* status "Abort", after which nothing more happens.  The history pre      *)
(* keeps the last operation (last), the key event of it (event), the       *)
(* terminal it found (was), the number of operations so far (ops), what    *)
(* the last read returned (value), the lines committed with Enter so far,  *)
(* each with its newline (committed), the writes and the committed lines   *)
(* in the order they occurred (shown), the bytes the reads have taken so   *)
(* far (consumed), and what the last dirty() returned (flag).              *)
(***************************************************************************)
\* the characters typed: a digit, a letter, and one that is not ASCII
TypedChars == {Ord["1"], Ord["a"], 233}

\* KeyEventKind: handled (Press, Repeat) and ignored (Release)
KeyKinds == {"Press", "Repeat", "Release"}

\* what the program writes: a text without and one with a newline
WrittenBufs == {Bytes(<<"H", "i">>), Bytes(<<"x", "\n", "y">>)}

KeyEvent(kind, code, c, shift) == [kind |-> kind, code |-> code, c |-> c, shift |-> shift]

\* the key event is one that on_key_event dispatches
Pressed(event) == event.kind \in {"Press", "Repeat"}

TerminalInit ==
    LET it == InterpreterNew(SpaceNew(<<>>), VecIODefault, TimelineDefault)
    IN  /\ space = it.space
        /\ cursor = it.cursor
        /\ stack = it.stack
        /\ io = it.io
        /\ recorder = it.recorder
        /\ status = "NotStarted"
        /\ analysis = PathAnalysisStateNew(it.space)
        /\ debugger = DebuggerNew
        /\ commands = CommandsViewDefault
        /\ terminal = VirtualTerminalDefault
        /\ pre = [op |-> "terminal", last |-> "new", was |-> VirtualTerminalDefault,
                  event |-> KeyEvent("Release", "Tab", 0, FALSE), ops |-> 0,
                  value |-> None, committed |-> <<>>, shown |-> <<>>, consumed |-> <<>>,
                  flag |-> FALSE]
        /\ nsteps = 0

\* what every operation on the terminal leaves alone
TerminalAlive ==
    /\ status # "Abort"
    /\ pre.ops < MaxTerminalOps
    /\ UNCHANGED <<space, cursor, stack, io, recorder, analysis, debugger, commands, nsteps>>

\* terminal.on_key_event(event)
OnKeyEvent(kind, code, c, shift) ==
    LET event == KeyEvent(kind, code, c, shift)
    IN  /\ TerminalAlive
        /\ \E overflow \in {"panic", "wrap"} :
              \E r \in {on_key_event(terminal, event, overflow)} :
                  /\ terminal' = r.t
                  /\ status' = IF r.panic THEN "Abort" ELSE status
        /\ LET line == IF Pressed(event) /\ event.code = "Enter"
                       THEN Append(terminal.uncommitted, Ord["\n"]) ELSE <<>>
           IN  pre' = [pre EXCEPT !.last = event.code, !.event = event, !.was = terminal,
                                  !.ops = @ + 1,
                                  !.committed = @ \o line,
                                  !.shown = @ \o line]

KeyChar ==
    \E kind \in KeyKinds, c \in TypedChars, shift \in BOOLEAN :
        OnKeyEvent(kind, "Char", c, shift)

KeyLeft == \E kind \in KeyKinds : OnKeyEvent(kind, "Left", 0, FALSE)

KeyRight == \E kind \in KeyKinds : OnKeyEvent(kind, "Right", 0, FALSE)

KeyBackspace == \E kind \in KeyKinds : OnKeyEvent(kind, "Backspace", 0, FALSE)

KeyDelete == \E kind \in KeyKinds : OnKeyEvent(kind, "Delete", 0, FALSE)

KeyEnter == \E kind \in KeyKinds : OnKeyEvent(kind, "Enter", 0, FALSE)

\* a key that the terminal does not handle
KeyOther == \E kind \in KeyKinds : OnKeyEvent(kind, "Tab", 0, FALSE)

\* terminal.write(buf)
TerminalWrite ==
    /\ TerminalAlive
    /\ \E buf \in WrittenBufs :
          /\ terminal' = terminal_write(terminal, buf)
          /\ pre' = [pre EXCEPT !.last = "write", !.was = terminal, !.ops = @ + 1,
                                !.shown = @ \o buf]
    /\ UNCHANGED status

\* terminal.read_byte()
TerminalReadByte ==
    /\ TerminalAlive
    /\ terminal' = terminal_read_byte(terminal).t
    /\ pre' = [pre EXCEPT !.last = "read_byte", !.was = terminal, !.ops = @ + 1,
                          !.value = terminal_read_byte(terminal).value,
                          !.consumed = IF terminal_read_byte(terminal).value = None
                                       THEN @ ELSE Append(@, terminal_read_byte(terminal).value)]
    /\ UNCHANGED status

\* terminal.read_number()
TerminalReadNumber ==
    /\ TerminalAlive
    /\ terminal' = terminal_read_number(terminal).t
    /\ pre' = [pre EXCEPT !.last = "read_number", !.was = terminal, !.ops = @ + 1,
                          !.value = terminal_read_number(terminal).value,
                          !.consumed =
                              @ \o SubSeq(terminal.available_input, 1,
                                          Len(terminal.available_input)
                                            - Len(terminal_read_number(terminal).t.available_input))]
    /\ UNCHANGED status

\* terminal.dirty()
TerminalDirty ==
    /\ TerminalAlive
    /\ terminal' = dirty(terminal).t
    /\ pre' = [pre EXCEPT !.last = "dirty", !.was = terminal, !.ops = @ + 1,
                          !.flag = dirty(terminal).value]
    /\ UNCHANGED status

TerminalNext ==
    \/ KeyChar
    \/ KeyLeft
    \/ KeyRight
    \/ KeyBackspace
    \/ KeyDelete
    \/ KeyEnter
    \/ KeyOther
    \/ TerminalWrite
    \/ TerminalReadByte
    \/ TerminalReadNumber
    \/ TerminalDirty

TerminalSpec == TerminalInit /\ [][TerminalNext]_vars

(***************************************************************************)
(* C28 (stated as claimed): after any sequence of key events and writes on *)
(* the terminal, 0 <= cursor <= uncommitted.len, and no key event aborts.  *)
(***************************************************************************)
C28_CursorWithinPrompt ==
    pre.op = "terminal" =>
        /\ status # "Abort"
        /\ terminal.cursor >= 0
        /\ terminal.cursor <= Len(terminal.uncommitted)

\* the last operation was a Delete key that on_key_event dispatched
Deleted == pre.op = "terminal" /\ pre.last = "Delete" /\ Pressed(pre.event)

(***************************************************************************)
(* C29 (stated as claimed): Delete with cursor < len removes the byte at   *)
(* index cursor of uncommitted and leaves the cursor and every other byte  *)
(* as they were; Delete with cursor = len changes nothing.                 *)
(***************************************************************************)
C29_DeleteRemovesByteAtCursor ==
    Deleted =>
        /\ pre.was.cursor < Len(pre.was.uncommitted) =>
              /\ status # "Abort"
              /\ terminal.uncommitted = RemoveAt(pre.was.uncommitted, pre.was.cursor)
              /\ terminal.cursor = pre.was.cursor
              /\ terminal.display = pre.was.display
              /\ terminal.available_input = pre.was.available_input
              /\ terminal.newline_indices = pre.was.newline_indices
        /\ pre.was.cursor = Len(pre.was.uncommitted) => terminal = pre.was

\* the last operation was an Enter key that on_key_event dispatched
Entered == pre.op = "terminal" /\ pre.last = "Enter" /\ Pressed(pre.event)

(***************************************************************************)
(* C30: Enter, with uncommitted = u, appends u and then a newline to the   *)
(* display and to available_input, after what they hold, records the       *)
(* display index of that newline in newline_indices, and leaves            *)
(* uncommitted empty and the cursor 0.                                     *)
(***************************************************************************)
C30_EnterCommitsPrompt ==
    Entered =>
        LET line == Append(pre.was.uncommitted, Ord["\n"])
            last == terminal.newline_indices[Len(terminal.newline_indices)]
        IN  /\ terminal.display = pre.was.display \o line
            /\ terminal.available_input = pre.was.available_input \o line
            /\ Len(terminal.newline_indices) = Len(pre.was.newline_indices) + 1
            /\ SubSeq(terminal.newline_indices, 1, Len(pre.was.newline_indices))
                  = pre.was.newline_indices
            /\ last = Len(terminal.display) - 1
            /\ terminal.display[last + 1] = Ord["\n"]
            /\ terminal.uncommitted = <<>>
            /\ terminal.cursor = 0

\* a typed line was committed after text already on the display and input
\* already available, with the cursor inside the line
C30_Witness ==
    /\ Entered
    /\ pre.was.uncommitted # <<>>
    /\ pre.was.display # <<>>
    /\ pre.was.available_input # <<>>
    /\ pre.was.cursor > 0
    /\ terminal.cursor = 0
    /\ terminal.uncommitted = <<>>

\* the 0-based indices of the newlines of a byte string
NewlinesOf(bytes) == {i \in 0..(Len(bytes) - 1) : bytes[i + 1] = Ord["\n"]}

\* the lines of a byte string: what stands between its newlines, and after
\* the last of them
RECURSIVE LinesOf(_)
LinesOf(bytes) ==
    IF NewlinesOf(bytes) = {} THEN <<bytes>>
    ELSE LET first == CHOOSE i \in NewlinesOf(bytes) : \A j \in NewlinesOf(bytes) : i <= j
         IN  <<SubSeq(bytes, 1, first)>> \o LinesOf(SubSeq(bytes, first + 2, Len(bytes)))

(***************************************************************************)
(* C31: after any sequence of writes and key events, newline_indices is    *)
(* strictly increasing and holds exactly the indices of the newlines of    *)
(* display; get_line(i) is the i-th line of display for i up to the number *)
(* of newlines, and None for a larger i.                                   *)
(***************************************************************************)
C31_NewlinesIndexedAndLinesCut ==
    pre.op = "terminal" =>
        /\ \A j, k \in 1..Len(terminal.newline_indices) :
              j < k => terminal.newline_indices[j] < terminal.newline_indices[k]
        /\ {terminal.newline_indices[k] : k \in 1..Len(terminal.newline_indices)}
              = NewlinesOf(terminal.display)
        /\ num_lines(terminal) = Len(LinesOf(terminal.display))
        /\ \A i \in 0..(num_lines(terminal) - 1) :
              get_line(terminal, i) = [ok |-> "Some", bytes |-> LinesOf(terminal.display)[i + 1]]
        /\ \A i \in num_lines(terminal)..(num_lines(terminal) + 1) :
              get_line(terminal, i).ok = "None"

\* newlines written by the program and newlines of committed lines are on
\* the display, with a line of text between two of them
C31_Witness ==
    /\ pre.op = "terminal"
    /\ Len(terminal.newline_indices) >= 3
    /\ \E k \in 1..Len(pre.was.newline_indices) :
          get_line(terminal, k).ok = "Some" /\ Len(get_line(terminal, k).bytes) > 1
    /\ pre.last = "Enter" /\ Pressed(pre.event)
    /\ \E k \in 1..Len(terminal.display) : terminal.display[k] = Ord["y"]

(***************************************************************************)
(* C32: only committed input reaches the interpreter.  The bytes the reads *)
(* have taken, followed by those still available, are the lines committed  *)
(* with Enter, each with its newline, in order; read_byte returns the      *)
(* first of the available bytes and read_number a number of their digits;  *)
(* and display is the writes and the committed lines in the order they     *)
(* occurred.                                                               *)
(***************************************************************************)
C32_OnlyCommittedInputIsRead ==
    pre.op = "terminal" =>
        /\ pre.consumed \o terminal.available_input = pre.committed
        /\ terminal.display = pre.shown
        /\ pre.last = "read_byte" =>
              pre.value = IF pre.was.available_input = <<>> THEN None
                          ELSE Head(pre.was.available_input)
        /\ pre.last = "read_number" /\ pre.value # None =>
              /\ Readable(pre.was.available_input)
              /\ pre.value = Decimal(pre.was.available_input, Used(pre.was.available_input))

\* after a write and with a line typed but not committed, a read returned a
\* byte of the second of two committed lines
C32_Witness ==
    /\ pre.op = "terminal"
    /\ pre.last \in {"read_byte", "read_number"}
    /\ pre.value # None
    /\ pre.consumed # <<>>
    /\ terminal.display # pre.committed
    /\ terminal.uncommitted # <<>>

\* what a caller of the terminal can see of it, the dirty flag apart
Visible(t) == <<t.display, t.newline_indices, t.available_input, t.uncommitted, t.cursor>>

(***************************************************************************)
(* C33 (stated as claimed): every operation of the terminal that changes   *)
(* display, newline_indices, available_input, uncommitted or cursor leaves *)
(* dirty = true, and dirty() returns the flag and resets it, changing      *)
(* nothing else.                                                           *)
(***************************************************************************)
C33_ChangesSetDirty ==
    pre.op = "terminal" /\ status # "Abort" =>
        /\ pre.last # "dirty" /\ Visible(terminal) # Visible(pre.was) => terminal.dirty
        /\ pre.last = "dirty" =>
              /\ pre.flag = pre.was.dirty
              /\ ~terminal.dirty
              /\ Visible(terminal) = Visible(pre.was)

(***************************************************************************)
(* The command prompt on its own: a command line is typed and edited on a  *)
(* new CommandsView and submitted with Enter.  A panic of the handler is   *)
(* status "Abort".  The history pre keeps whether Enter has been pressed   *)
(* (entered), the view it found (was) and what on_key_event returned for   *)
(* it (event).                                                             *)
(***************************************************************************)
\* the characters typed: command words, which are also arguments that are
\* not numbers, a space, and a digit, which is also an unknown command
CommandChars == {Letters["s"], Letters["b"], Letters["h"], Ord[" "], Ord["1"]}

\* the kinds of key event told apart: on_key_event does not look at the kind
CommandKinds == {"Press", "Release"}

CommandInit ==
    LET it == InterpreterNew(SpaceNew(<<>>), VecIODefault, TimelineDefault)
    IN  /\ space = it.space
        /\ cursor = it.cursor
        /\ stack = it.stack
        /\ io = it.io
        /\ recorder = it.recorder
        /\ status = "NotStarted"
        /\ analysis = PathAnalysisStateNew(it.space)
        /\ debugger = DebuggerNew
        /\ commands = CommandsViewDefault
        /\ terminal = VirtualTerminalDefault
        /\ pre = [op |-> "commands", last |-> "new", was |-> CommandsViewDefault,
                  event |-> NoEvent, entered |-> FALSE]
        /\ nsteps = 0

\* commands.on_key_event(event)
CommandKey(kind, code, c, shift) ==
    LET event == KeyEvent(kind, code, c, shift)
    IN  /\ status # "Abort"
        /\ ~pre.entered
        /\ \E overflow \in {"panic", "wrap"} :
              \E r \in {commands_on_key_event(commands, event, overflow)} :
                  /\ commands' = r.v
                  /\ status' = IF r.panic THEN "Abort" ELSE status
                  /\ pre' = IF event.code = "Enter"
                            THEN [pre EXCEPT !.last = "Enter", !.was = commands,
                                             !.event = r.event, !.entered = TRUE]
                            ELSE pre
        /\ UNCHANGED <<space, cursor, stack, io, recorder, analysis, debugger, terminal, nsteps>>

CommandChar ==
    /\ Len(commands.input_contents) < MaxCommandLen
    /\ \E kind \in CommandKinds, c \in CommandChars : CommandKey(kind, "Char", c, FALSE)

CommandLeft == \E kind \in CommandKinds : CommandKey(kind, "Left", 0, FALSE)

\* on an empty command line, in a build without overflow checks, Right
\* moves the cursor on up to 65535: it is followed as far as the lines go
CommandRight ==
    /\ commands.input_cursor <= MaxCommandLen
    /\ \E kind \in CommandKinds : CommandKey(kind, "Right", 0, FALSE)

CommandBackspace == \E kind \in CommandKinds : CommandKey(kind, "Backspace", 0, FALSE)

CommandEnter == \E kind \in CommandKinds : CommandKey(kind, "Enter", 0, FALSE)

\* a key that is none of these and has no character
CommandOther == \E kind \in CommandKinds : CommandKey(kind, "Delete", 0, FALSE)

CommandNext ==
    \/ CommandChar
    \/ CommandLeft
    \/ CommandRight
    \/ CommandBackspace
    \/ CommandEnter
    \/ CommandOther

CommandSpec == CommandInit /\ [][CommandNext]_vars

\* the command line submitted, cut at its spaces
Submitted == split(pre.was.input_contents)

\* the numbers of arguments a command word accepts
Arities(word) ==
    IF word \in StepWords THEN {0, 1}
    ELSE IF word \in LoadWords THEN {1}
    ELSE IF word \in BreakpointWords THEN {2}
    ELSE IF word \in HelpWords \cup RunWords \cup PauseWords \cup QuitWords THEN {0}
    ELSE {}

ErrorKinds ==
    {"error: unknown command alias", "error: too few arguments", "error: too many arguments"}

(***************************************************************************)
(* C34 (stated as claimed): for every command line submitted with Enter    *)
(* the parser yields one outcome and never aborts: a CommandEvent, or a    *)
(* no-op (empty input, help), or an error message in the output area with  *)
(* no event; fewer arguments than the arity of the command give            *)
(* TooFewArguments and more give TooManyArguments.                         *)
(***************************************************************************)
C34_EveryCommandLineHasAnOutcome ==
    pre.op = "commands" /\ pre.last = "Enter" =>
        /\ status # "Abort"
        /\ \/ pre.event # NoEvent /\ commands.output.kind \notin ErrorKinds
           \/ /\ pre.event = NoEvent
              /\ commands.output.kind \notin ErrorKinds
              /\ Submitted[1] \in HelpWords \cup {<<>>}
           \/ pre.event = NoEvent /\ commands.output.kind \in ErrorKinds
        /\ Arities(Submitted[1]) # {} =>
              /\ (\A n \in Arities(Submitted[1]) : Len(Submitted) - 1 < n)
                    => commands.output.kind = "error: too few arguments"
              /\ (\A n \in Arities(Submitted[1]) : Len(Submitted) - 1 > n)
                    => commands.output.kind = "error: too many arguments"

(***************************************************************************)
(* The two prompts side by side: a new CommandsView and a new              *)
(* VirtualTerminal receive the same character, Left, Right and Backspace   *)
(* key events.  A panic of either handler is status "Abort".               *)
(***************************************************************************)
PromptInit ==
    LET it == InterpreterNew(SpaceNew(<<>>), VecIODefault, TimelineDefault)
    IN  /\ space = it.space
        /\ cursor = it.cursor
        /\ stack = it.stack
        /\ io = it.io
        /\ recorder = it.recorder
        /\ status = "NotStarted"
        /\ analysis = PathAnalysisStateNew(it.space)
        /\ debugger = DebuggerNew
        /\ commands = CommandsViewDefault
        /\ terminal = VirtualTerminalDefault
        /\ pre = [op |-> "prompt", last |-> "new"]
        /\ nsteps = 0

\* commands.on_key_event(event) and terminal.on_key_event(event)
PromptKey(kind, code, c, shift) ==
    LET event == KeyEvent(kind, code, c, shift)
    IN  /\ status # "Abort"
        /\ \E overflow \in {"panic", "wrap"} :
              \E r \in {commands_on_key_event(commands, event, overflow)},
                 t \in {on_key_event(terminal, event, overflow)} :
                  /\ commands' = r.v
                  /\ terminal' = t.t
                  /\ status' = IF r.panic \/ t.panic THEN "Abort" ELSE status
        /\ pre' = [pre EXCEPT !.last = event.code]
        /\ UNCHANGED <<space, cursor, stack, io, recorder, analysis, debugger, nsteps>>

PromptChar ==
    /\ Len(commands.input_contents) < MaxPromptLen
    /\ Len(terminal.uncommitted) < MaxPromptLen
    /\ \E kind \in KeyKinds, c \in TypedChars, shift \in BOOLEAN :
          PromptKey(kind, "Char", c, shift)

PromptLeft == \E kind \in KeyKinds : PromptKey(kind, "Left", 0, FALSE)

\* Right is followed as far as the prompts go (see CommandRight)
PromptRight ==
    /\ commands.input_cursor <= MaxPromptLen
    /\ \E kind \in KeyKinds : PromptKey(kind, "Right", 0, FALSE)

PromptBackspace == \E kind \in KeyKinds : PromptKey(kind, "Backspace", 0, FALSE)

PromptNext == PromptChar \/ PromptLeft \/ PromptRight \/ PromptBackspace

PromptSpec == PromptInit /\ [][PromptNext]_vars

(***************************************************************************)
(* C35 (stated as claimed): after every sequence of character, Left, Right *)
(* and Backspace key events from empty prompts, the command line and its   *)
(* cursor equal the uncommitted line of the terminal and its cursor, the   *)
(* cursor lies within 0..len, and no key event aborts.                     *)
(***************************************************************************)
C35_CommandPromptEditsLikeTerminal ==
    pre.op = "prompt" =>
        /\ status # "Abort"
        /\ commands.input_contents = terminal.uncommitted
        /\ commands.input_cursor = terminal.cursor
        /\ commands.input_cursor >= 0
        /\ commands.input_cursor <= Len(commands.input_contents)

\* the sum of the events fields of the first n Steps of a Timeline
RECURSIVE SumEvents(_, _)
SumEvents(t, n) == IF n = 0 THEN 0 ELSE SumEvents(t, n - 1) + t.steps[n].events

\* the last call of step() committed its Step
Committed == Stepped /\ Returned /\ pre.delivered = <<"start_step", "commit_step">>

(***************************************************************************)
(* C36 (stated as claimed): after commit_step the events field of the last *)
(* Step is the number of events recorded since its start_step, and after   *)
(* any sequence of committed steps the events fields of the Steps add up   *)
(* to the length of the event list.                                        *)
(***************************************************************************)
C36_StepsCountTheirEvents ==
    /\ Committed =>
          recorder.steps[Len(recorder.steps)].events
            = Len(recorder.events) - Len(pre.it.recorder.events)
    /\ Returned /\ status \notin {"Waiting", "InfiniteLoop"} =>
          SumEvents(recorder, Len(recorder.steps)) = Len(recorder.events)

\* the cells of the extent on the cursor's line of travel: the cursor's row
\* for Left and Right, its column for Up and Down
LineOfTravel(sp, c) ==
    IF c.dir \in {"Left", "Right"}
    THEN {Position(x, c.pos.y) : x \in 0..(sp.cols - 1)}
    ELSE {Position(c.pos.x, y) : y \in 0..(sp.rows - 1)}

\* the last step() returned Error(InfiniteLoop)
LoopReported == Stepped /\ status = "InfiniteLoop"

\* C37: step() returns Error(InfiniteLoop) only when every cell on the
\* cursor's line of travel (its row going Left or Right, its column going Up
\* or Down) is a space; it is never returned while a non-space cell lies on
\* that line.
C37_InfiniteLoopOnlyOnBlankLine ==
    LoopReported => \A p \in LineOfTravel(space, cursor) : get_cell(space, p) = Ord[" "]

\* the last step() was called after a step() that returned Terminated
AfterTerminated == Stepped /\ pre.status = "Terminated"

\* C38: termination is absorbing: a step() called after step() has returned
\* Terminated returns Terminated again and leaves the cursor's position,
\* direction and mode, the stack, the space and the output unchanged.
C38_TerminatedIsAbsorbing ==
    AfterTerminated =>
        /\ status = "Terminated"
        /\ cursor = pre.it.cursor
        /\ stack = pre.it.stack
        /\ space = pre.it.space
        /\ io.output_buffer = pre.it.io.output_buffer

\* a second Terminated step of a program that has written output
C38_Witness ==
    AfterTerminated /\ status = "Terminated" /\ io.output_buffer # <<>> /\ space.cols > 1

\* the position lies inside the extent of the space
InExtent(sp, pos) == pos.x < sp.cols /\ pos.y < sp.rows

\* the last operation was a step() of a program that is not empty
SteppedNonEmpty == Stepped /\ pre.initial.cols > 0 /\ pre.initial.rows > 0

\* C39: for every non-empty program the cursor lies inside the current
\* extent (x < cols and y < rows) at the start of every step, in Normal mode
\* and in Quote mode: the position a Left or Up wrap produces is never the
\* cell a step executes or pushes.
C39_StepStartsInsideExtent ==
    SteppedNonEmpty => InExtent(pre.it.space, pre.it.cursor.pos)

(***************************************************************************)
(* StdIO (io.rs): the IO of the command-line run.  Its InputBuffer holds   *)
(* a scratch buffer of 32 bytes filled from standard input, and the        *)
(* offset and the length of the part not consumed yet.                     *)
(***************************************************************************)
\* the size of InputBuffer::buffer
BufferSize == 32

\* the most chunks standard input delivers, and the most reads of a run
MaxChunks == 3
MaxStdReads == 3

Min(a, b) == IF a <= b THEN a ELSE b

\* InputBuffer::default.  stdin is what standard input will deliver: a
\* sequence of chunks, a chunk being what one read() has at hand (a line
\* typed at a terminal, a write into a pipe); no chunk left is the end of
\* the input.
InputBufferDefault(stdin) ==
    [stdin  |-> stdin,
     buffer |-> [i \in 1..BufferSize |-> 0],
     offset |-> 0,
     length |-> 0]

\* StdIO::default
StdIODefault(stdin) == [input |-> InputBufferDefault(stdin)]

\* self.stdin.read(&mut self.buffer[start..start + len]): [b, n].  read()
\* fills the slice from its first byte with at most len bytes of the chunk
\* at hand and returns their number, 0 at the end of the input.
stdin_read(b, start, len) ==
    IF b.stdin = <<>> THEN [b |-> b, n |-> 0]
    ELSE LET chunk == Head(b.stdin)
             n     == Min(len, Len(chunk))
         IN  [b |-> [b EXCEPT !.buffer = SubSeq(@, 1, start) \o SubSeq(chunk, 1, n)
                                            \o SubSeq(@, start + n + 1, BufferSize),
                              !.stdin = IF n = Len(chunk) THEN Tail(@)
                                        ELSE <<SubSeq(chunk, n + 1, Len(chunk))>> \o Tail(@)],
              n |-> n]

\* InputBuffer::is_empty
is_empty(b) == b.length = 0

\* InputBuffer::read_byte: [b, value, panic]
InputBuffer_read_byte(b) ==
    LET r      == stdin_read(b, 0, BufferSize)
        filled == IF is_empty(b) THEN [r.b EXCEPT !.offset = 0, !.length = r.n] ELSE b
    IN  IF is_empty(b) /\ r.n = 0 THEN [b |-> r.b, value |-> None, panic |-> FALSE]
        ELSE IF filled.offset >= BufferSize
        THEN [b |-> filled, value |-> None, panic |-> TRUE]
        ELSE [b     |-> [filled EXCEPT !.offset = @ + 1, !.length = @ - 1],
              value |-> filled.buffer[filled.offset + 1],
              panic |-> FALSE]

\* InputBuffer::skip_and_shift: [b, panic].  The assertion and
\* copy_within panic, the latter on a source range that leaves the buffer.
skip_and_shift(b, skip) ==
    LET start == b.offset + skip
        end   == b.offset + b.length
    IN  IF skip > b.length \/ (start # end /\ end > BufferSize)
        THEN [b |-> b, panic |-> TRUE]
        ELSE [b |-> [b EXCEPT !.buffer = SubSeq(@, start + 1, end)
                                            \o SubSeq(@, end - start + 1, BufferSize),
                              !.offset = 0,
                              !.length = @ - skip],
              panic |-> FALSE]

\* read_more that reads behind the buffered bytes
read_more_appends(b) ==
    LET end == b.offset + b.length
        r   == stdin_read(b, end, BufferSize - end)
    IN  IF end > BufferSize THEN [b |-> b, n |-> 0, panic |-> TRUE]
        ELSE [b |-> [r.b EXCEPT !.length = @ + r.n], n |-> r.n, panic |-> FALSE]

\* InputBuffer::read_more: [b, n, panic].  The slice read into is the whole
\* buffer when nothing is buffered, and else buffer[offset..offset + length],
\* which panics when it leaves the buffer.
read_more(b) ==
    LET r == IF b.length = 0 THEN stdin_read(b, 0, BufferSize)
             ELSE stdin_read(b, b.offset, b.length)
    IN  IF b.length # 0 /\ b.offset + b.length > BufferSize
        THEN [b |-> b, n |-> 0, panic |-> TRUE]
        ELSE [b |-> [r.b EXCEPT !.length = @ + r.n], n |-> r.n, panic |-> FALSE]

\* InputBuffer::bytes, which panics on a slice that leaves the buffer
bytes(b) == SubSeq(b.buffer, b.offset + 1, b.offset + b.length)

\* the loop of StdIO::read_number: [b, value, panic, more].  more lists the
\* calls of read_more: the InputBuffer before and after each.
RECURSIVE read_number_loop(_, _)
read_number_loop(b, more) ==
    IF b.offset + b.length > BufferSize
    THEN [b |-> b, value |-> None, panic |-> TRUE, more |-> more]
    ELSE LET r  == try_read_number(bytes(b))
             sk == skip_and_shift(b, IF r.ok THEN r.offset ELSE r.skippable)
             m  == read_more(sk.b)
         IN  IF sk.panic THEN [b |-> sk.b, value |-> None, panic |-> TRUE, more |-> more]
             ELSE IF r.ok THEN [b |-> sk.b, value |-> r.num, panic |-> FALSE, more |-> more]
             ELSE IF m.panic THEN [b |-> m.b, value |-> None, panic |-> TRUE, more |-> more]
             ELSE IF m.n = 0
             THEN [b |-> m.b, value |-> None, panic |-> FALSE,
                   more |-> Append(more, [was |-> sk.b, now |-> m.b])]
             ELSE read_number_loop(m.b, Append(more, [was |-> sk.b, now |-> m.b]))

\* StdIO::read_byte
StdIO_read_byte(v) ==
    LET r == InputBuffer_read_byte(v.input)
    IN  [io |-> [v EXCEPT !.input = r.b], value |-> r.value, panic |-> r.panic,
         more |-> <<>>]

\* StdIO::read_number
StdIO_read_number(v) ==
    LET m == read_more(v.input)
        r == IF ~is_empty(v.input) THEN read_number_loop(v.input, <<>>)
             ELSE IF m.n = 0
             THEN [b |-> m.b, value |-> None, panic |-> FALSE,
                   more |-> <<[was |-> v.input, now |-> m.b]>>]
             ELSE read_number_loop(m.b, <<[was |-> v.input, now |-> m.b]>>)
    IN  [io |-> [v EXCEPT !.input = r.b], value |-> r.value, panic |-> r.panic,
         more |-> r.more]

\* a line as long as the buffer
LongLine == [i \in 1..BufferSize |-> Ord[" "]]

\* what one read() of standard input may have at hand: digits without and
\* with a terminator, a line, and a line as long as the buffer
StdinChunks ==
    {Bytes(<<"1">>), Bytes(<<"1", "2">>), Bytes(<<"3", "\n">>), Bytes(<<" ", "4">>), LongLine}

\* the inputs: up to MaxChunks chunks, one of them at most a long line
Stdins ==
    {stdin \in UNION {[1..n -> StdinChunks] : n \in 0..MaxChunks} :
        Cardinality({i \in DOMAIN stdin : stdin[i] = LongLine}) <= 1}

StdInit ==
    \E stdin \in Stdins :
        LET it == InterpreterNew(SpaceNew(<<>>), StdIODefault(stdin), TimelineDefault)
        IN  /\ space = it.space
            /\ cursor = it.cursor
            /\ stack = it.stack
            /\ io = it.io
            /\ recorder = it.recorder
            /\ status = "NotStarted"
            /\ analysis = PathAnalysisStateNew(it.space)
            /\ debugger = DebuggerNew
            /\ commands = CommandsViewDefault
            /\ terminal = VirtualTerminalDefault
            /\ pre = [op |-> "stdio", last |-> "new", value |-> None, more |-> <<>>]
            /\ nsteps = 0

\* one call on the StdIO; a panic ends the run
StdCall(name, r) ==
    /\ status # "Abort"
    /\ nsteps < MaxStdReads
    /\ io' = r.io
    /\ status' = IF r.panic THEN "Abort" ELSE "Completed"
    /\ pre' = [op |-> "stdio", last |-> name, value |-> r.value, more |-> r.more]
    /\ nsteps' = nsteps + 1
    /\ UNCHANGED <<space, cursor, stack, recorder, analysis, debugger, commands, terminal>>

\* io.read_byte()
StdReadByte == \E r \in {StdIO_read_byte(io)} : StdCall("read_byte", r)

\* io.read_number()
StdReadNumber == \E r \in {StdIO_read_number(io)} : StdCall("read_number", r)

StdNext == StdReadByte \/ StdReadNumber

StdSpec == StdInit /\ [][StdNext]_vars

\* the bytes buffered and not consumed yet, None for a place outside the
\* buffer
Pending(b) ==
    [k \in 1..b.length |->
        IF b.offset + k <= BufferSize THEN b.buffer[b.offset + k] ELSE None]

\* old is the beginning of new
IsPrefix(old, new) == Len(old) <= Len(new) /\ SubSeq(new, 1, Len(old)) = old

\* C40: the InputBuffer keeps offset + length <= 32 after any sequence of
\* read_byte and read_number calls, and read_more overwrites no byte that is
\* buffered and not consumed yet: the bytes pending before a read_more are
\* still there, in order, in front of the bytes it has read.
C40_BufferBoundedAndPendingKept ==
    /\ io.input.offset + io.input.length <= BufferSize
    /\ \A i \in DOMAIN pre.more :
          /\ pre.more[i].now.offset + pre.more[i].now.length <= BufferSize
          /\ IsPrefix(Pending(pre.more[i].was), Pending(pre.more[i].now))

============================================================================
